---- MODULE Spec2Model ----
(***************************************************************************)
(* Lunia WhatsApp agent: the in-memory session store                       *)
(* (src/services/session_manager.py, src/models/schemas.py) and the        *)
(* per-message turn driver (src/agents/lunia_agent_enhanced.py,            *)
(* src/api/main.py).                                                       *)
(*                                                                         *)
(* Time is an integer clock `now` (minutes); datetime.now() reads it.      *)
(* The session store is the dict InMemorySessionManager._sessions: a       *)
(* function whose domain is the set of users that have a stored session.   *)
(* An Optional value is a sequence of length at most one (<<>> is None).   *)
(***************************************************************************)
EXTENDS Integers, Sequences, FiniteSets, TLC

\* ---- bounds of the model ------------------------------------------------
MaxTime == 2
\* add_message calls in the history specification and in the expiry one
MaxAppends == 4
MaxExpiryAppends == 2
\* inbound messages of one sender in the turn specification
MaxTurns == 2

\* ---- src/core/config.py: the session settings ----------------------------
\* Config.SESSION_TIMEOUT_MINUTES and Config.MAX_CONVERSATION_HISTORY are
\* attributes read at every use; the defaults are 30 and 10, and the unit
\* tests patch them to 1 and 3.
SESSION_TIMEOUT_MINUTES == 30
MAX_CONVERSATION_HISTORY == 10
PatchedTimeoutMinutes == 1
PatchedMaxHistory == 3

DefaultConfig ==
    [SESSION_TIMEOUT_MINUTES |-> SESSION_TIMEOUT_MINUTES,
     MAX_CONVERSATION_HISTORY |-> MAX_CONVERSATION_HISTORY]

PatchedConfig ==
    [SESSION_TIMEOUT_MINUTES |-> PatchedTimeoutMinutes,
     MAX_CONVERSATION_HISTORY |-> PatchedMaxHistory]

Users == {"u1", "u2"}
\* the (role, content) pairs a caller passes to add_message
Messages == {<<"user", "hola">>, <<"user", "precio">>, <<"assistant", "precio">>}
Times == 0..MaxTime

VARIABLES
    now,        \* the wall clock
    Config,     \* the settings in force
    sessions,   \* InMemorySessionManager._sessions
    appended,   \* per user: what add_message appended since the session was created
    last,       \* the last session-manager call: operation, user, value returned
    attached,   \* LuniaAgent.service_integration is set
    turn,       \* per inbound message: the handler's position and its AgentState
    received,   \* the inbound messages in the order they were received
    matcher,    \* a call of AgentServiceIntegration.process_service_intent
    whatsapp,   \* WhatsAppServiceEnhanced: its semaphore and the calls of send_message
    kbase,      \* KnowledgeBaseService: flag, lock, cache and the calls in progress
    breaker     \* a CircuitBreaker and the calls through it

sessVars == <<now, Config, sessions, appended, last>>
turnVars == <<attached, turn, received, matcher, whatsapp, kbase, breaker>>
vars == <<now, Config, sessions, appended, last, attached, turn, received, matcher, whatsapp,
          kbase, breaker>>

None == <<>>
Some(x) == <<x>>

\* ---- src/models/schemas.py ------------------------------------------------
\* metadata: Optional[Dict] = None, a dict without any key
NoMetadata == [k \in {} |-> "None"]

ConversationTurn(role, content, metadata) ==
    [role |-> role, content |-> content, metadata |-> metadata]

UserSession(created_at, last_activity) ==
    [conversation_history |-> <<>>, created_at |-> created_at,
     last_activity |-> last_activity]

\* mutant: the turn is inserted at the front of the history
add_turn_prepend(session, role, content, metadata, t) ==
    [session EXCEPT !.conversation_history =
                        <<ConversationTurn(role, content, metadata)>> \o @,
                    !.last_activity = t]

add_turn(session, role, content, metadata, t) ==
    [session EXCEPT !.conversation_history =
                        Append(@, ConversationTurn(role, content, metadata)),
                    !.last_activity = t]

\* Python's seq[-n:] for n > 0
LastN(seq, n) ==
    IF Len(seq) <= n THEN seq ELSE SubSeq(seq, Len(seq) - n + 1, Len(seq))

\* ---- src/services/session_manager.py --------------------------------------
\* mutant: a session exactly at the timeout already counts as expired
is_session_expired_inclusive(session, t) ==
    t - session.last_activity >= Config.SESSION_TIMEOUT_MINUTES

is_session_expired(session, t) ==
    t - session.last_activity > Config.SESSION_TIMEOUT_MINUTES

delete_session(store, u) ==
    [v \in (DOMAIN store) \ {u} |-> store[v]]

\* mutant: save_session stores the session without touching last_activity
save_session_keeps_activity(store, u, session, t) ==
    [v \in (DOMAIN store) \cup {u} |-> IF v = u THEN session ELSE store[v]]

save_session(store, u, session, t) ==
    [v \in (DOMAIN store) \cup {u} |->
        IF v = u THEN [session EXCEPT !.last_activity = t] ELSE store[v]]

\* mutant: a read returns the stored session whatever its age
get_session_ignores_expiry(store, u, t) ==
    IF u \in DOMAIN store
    THEN [store |-> store, ret |-> Some(store[u])]
    ELSE [store |-> store, ret |-> None]

\* mutant: a read refreshes last_activity
get_session_refreshing(store, u, t) ==
    IF u \in DOMAIN store
    THEN IF t - store[u].last_activity > Config.SESSION_TIMEOUT_MINUTES
         THEN [store |-> [v \in (DOMAIN store) \ {u} |-> store[v]], ret |-> None]
         ELSE [store |-> [store EXCEPT ![u].last_activity = t],
               ret |-> Some([store[u] EXCEPT !.last_activity = t])]
    ELSE [store |-> store, ret |-> None]

\* get_session: the store afterwards and the value returned
get_session(store, u, t) ==
    IF u \in DOMAIN store
    THEN IF is_session_expired(store[u], t)
         THEN [store |-> delete_session(store, u), ret |-> None]
         ELSE [store |-> store, ret |-> Some(store[u])]
    ELSE [store |-> store, ret |-> None]

create_session(store, u, t) ==
    save_session(store, u, UserSession(t, t), t)

\* mutant: the oldest entries are kept (history[:N])
limit_history_keeps_oldest(history) ==
    IF Len(history) > Config.MAX_CONVERSATION_HISTORY
    THEN SubSeq(history, 1, Config.MAX_CONVERSATION_HISTORY)
    ELSE history

limit_history(history) ==
    IF Len(history) > Config.MAX_CONVERSATION_HISTORY
    THEN LastN(history, Config.MAX_CONVERSATION_HISTORY)
    ELSE history

\* add_message: get or create, add the turn, limit the history, save
add_message(store, u, role, content, metadata, t) ==
    LET g == get_session(store, u, t)
        store1 == IF g.ret = None THEN create_session(g.store, u, t) ELSE g.store
        turned == add_turn(store1[u], role, content, metadata, t)
        limited == [turned EXCEPT !.conversation_history = limit_history(@)]
    IN save_session(store1, u, limited, t)

cleanup_expired_sessions(store, t) ==
    LET expired_users == {u \in DOMAIN store : is_session_expired(store[u], t)}
    IN [v \in (DOMAIN store) \ expired_users |-> store[v]]

\* ---- ghost: the append log of the session currently stored ----------------
Log(u) == IF u \in DOMAIN sessions THEN appended[u] ELSE <<>>

LogAfter(store) == [u \in Users |-> IF u \in DOMAIN store THEN appended[u] ELSE <<>>]

\* the record of a call: the operation, its user, the last_activity the caller
\* set before save_session (arg), the value returned, the users whose session
\* the call removed, whether add_message had to create the session, whether
\* the call directly repeats a get_session of the same user (again), and
\* whether the clock is still at the time of the call
Call(op, u, arg, ret, removed) ==
    [op |-> op, user |-> u, arg |-> arg, ret |-> ret, removed |-> removed,
     created |-> (op = "add" /\ ~(u \in DOMAIN sessions /\
                                   ~is_session_expired(sessions[u], now))),
     again |-> (op = "get" /\ last.op = "get" /\ last.user = u),
     fresh |-> TRUE]

RECURSIVE SumLen(_, _)
SumLen(f, S) ==
    IF S = {} THEN 0
    ELSE LET u == CHOOSE v \in S : TRUE IN Len(f[u]) + SumLen(f, S \ {u})

TotalAppended == SumLen(appended, Users)

IsLive(u) == u \in DOMAIN sessions /\ ~is_session_expired(sessions[u], now)

\* ==== the conversation turn: its state =====================================
\* src/agents/lunia_agent_enhanced.py and src/api/main.py.  AgentState is
\* taken with the fields its callers and the agent use (api/main.py, cli.py
\* and the integration tests construct it with session_id and
\* processing_start_time; the agent sets service_action_taken): the record
\* below holds the fields that decide the flow of a turn.
max_message_length == 4000
Sender == "u1"
TurnIds == 1..MaxTurns
NoneStr == "None"

\* An inbound text: the text after strip(), whether the raw text carries
\* surrounding whitespace (pad), len() of the stripped text, the keywords of
\* the node's lists that the lower-cased text contains (kw), and the service
\* pattern of the Service Action Matcher that it matches (svc).
Message(text, pad, len, kw, svc) ==
    [text |-> text, pad |-> pad, len |-> len, kw |-> kw, svc |-> svc]

EmptyMsg == Message("", FALSE, 0, {}, "none")
BlankMsg == Message("", TRUE, 0, {}, "none")
HolaMsg == Message("Hola", TRUE, 4, {"hola"}, "none")
InquiryMsg == Message("Que es Lunia", FALSE, 12, {}, "none")
PrecioMsg == Message("price of the service", FALSE, 20, {"price", "service"}, "none")
EmailMsg == Message("send email to ana@lunia.co", FALSE, 26,
                    {"email", "send", "ai"}, "email")
LimitMsg == Message("x * 8000", FALSE, 2 * max_message_length, {}, "none")
TooLongMsg == Message("x * 8001", FALSE, 2 * max_message_length + 1, {}, "none")

\* the texts the transcription step puts in place of an audio message it could
\* not process, as messages: "ai" is part of "Audio transcription failed" and
\* of "OpenAI", "hi" is part of "this"; none matches a service pattern
SentinelMessages ==
    {Message("[Audio transcription failed]", FALSE, 28, {"ai"}, "none"),
     Message("[Audio file not found for transcription]", FALSE, 40, {}, "none"),
     Message("[Audio file was a placeholder, not transcribed]", FALSE, 47, {}, "none"),
     Message("[OpenAI client not available for transcription]", FALSE, 47, {"ai"}, "none"),
     Message("[Audio message URL received, but live download/processing is not part of this simulation step]",
             FALSE, 94, {"hi"}, "none"),
     Message("[Transcription resulted in empty text]", FALSE, 38, {}, "none"),
     Message("[Audio transcription failed or unavailable]", FALSE, 43, {"ai"}, "none")}

\* str.strip()
strip(m) == [m EXCEPT !.pad = FALSE]

AgentState(message, sender, history) ==
    [input_message |-> message, sender_phone |-> sender, response |-> "",
     message_type |-> "text", conversation_history |-> history,
     processing_errors |-> <<>>, validation_error |-> NoneStr,
     message_length |-> 0, is_greeting |-> FALSE, is_goodbye |-> FALSE,
     intent |-> NoneStr, confidence |-> 0, response_sent |-> FALSE,
     session_updated |-> FALSE, service_action_taken |-> FALSE,
     service_error |-> NoneStr]

\* ---- the state of a turn ------------------------------------------------------
GraphNodes == {"validate_input", "process_message", "generate_response",
               "send_response", "handle_error"}

IdleTurn ==
    [phase |-> "idle", gpc |-> "none", via |-> "none", message |-> EmptyMsg,
     st |-> AgentState(EmptyMsg, "", <<>>), calls |-> {}, sends |-> <<>>,
     exit |-> "none", returned |-> None, propagated |-> FALSE,
     kb |-> "none", elapsed |-> FALSE, context |-> <<>>]


\* ==== the Service Action Matcher (src/services/agent_service_integration.py) ====
\* process_service_intent tries the categories in this order
Categories == <<"email", "calendar", "reminder", "data">>

\* The text of a message is a sequence of characters over a small alphabet.
\* [\w\.-] is the class of "a", "b" and "."; \w is "a" and "b".
AddressChars == {"a", "b", "."}
WordChars == {"a", "b"}

AllIn(text, from, to, class) == \A i \in from..to : text[i] \in class

\* the spans <<s, e>> of text that [\w\.-]+@[\w\.-]+\.\w+ matches in full
AddressSpans(text) ==
    {span \in (1..Len(text)) \X (1..Len(text)) :
        \E at \in (span[1] + 1)..(span[2] - 3), dot \in (span[1] + 3)..(span[2] - 1) :
            /\ at + 1 < dot
            /\ AllIn(text, span[1], at - 1, AddressChars)
            /\ text[at] = "@"
            /\ AllIn(text, at + 1, dot - 1, AddressChars)
            /\ text[dot] = "."
            /\ AllIn(text, dot + 1, span[2], WordChars)}

\* mutant: the whole text is taken for the address
extract_address_whole_text(text) == text

\* re.search(...).group(): the leftmost match, as long as it can be (every
\* quantifier of the pattern is greedy); <<>> when nothing matches
extract_address(text) ==
    LET spans == AddressSpans(text) IN
    IF spans = {} THEN <<>>
    ELSE LET s == CHOOSE s \in {sp[1] : sp \in spans} :
                        \A sp \in spans : s <= sp[1]
             e == CHOOSE e \in {sp[2] : sp \in {x \in spans : x[1] = s}} :
                        \A sp \in {x \in spans : x[1] = s} : sp[2] <= e
         IN SubSeq(text, s, e)

\* texts: "ab", "a@b.a", "a+b@a.b", "a@b", "a@b.a.", "b@a.b a@b.a"
TextSomeone == <<"a", "b">>
TextPlain == <<"a", "@", "b", ".", "a">>
TextPlus == <<"a", "+", "b", "@", "a", ".", "b">>
TextNoDot == <<"a", "@", "b">>
TextTrailingDot == <<"a", "@", "b", ".", "a", ".">>
TextTwo == <<"b", "@", "a", ".", "b", " ", "a", "@", "b", ".", "a">>
MatcherTexts == {TextSomeone, TextPlain, TextPlus, TextNoDot, TextTrailingDot, TextTwo}

\* the time expression of the message: none, "tomorrow", or "at 25", whose
\* hour makes datetime.replace raise ValueError
TimeExpressions == {"none", "tomorrow", "at 25", "at 3pm", "tomorrow at 3pm"}

\* a message as the matcher sees it: the categories whose patterns (keywords)
\* its lower-cased text matches, its characters, its time expression
MatcherMessage(matches, text, when) == [matches |-> matches, text |-> text, when |-> when]

MatcherMessages ==
    {MatcherMessage(matches, text, when) :
        matches \in SUBSET {"email", "calendar", "reminder", "data"},
        text \in MatcherTexts, when \in TimeExpressions}

\* what a collaborator call does
SendEmailOutcomes == {"true", "false", "raise"}
CreateEventOutcomes == {"id", "null", "raise"}
InsertOutcomes == {"record", "null", "raise"}

\* a call of a collaborator, with the category that made it
Invocation(category, op, target, outcome) ==
    [category |-> category, op |-> op, target |-> target, outcome |-> outcome]

ServiceResult(action, success) == [action |-> action, success |-> success]

\* what a category's check does: the dict it returns (None: no match), the
\* collaborator calls it made, and whether an exception leaves it
Checked(result, invoked) == [result |-> result, invoked |-> invoked, raised |-> FALSE]
NoMatch == Checked(None, <<>>)

\* _extract_datetime_from_message raises on an impossible hour
extract_datetime_raises(m) == m.when = "at 25"

\* datetime.now() at the call, and a datetime: the day counted from the day of
\* the call, the hour and the minute
ClockTimes ==
    {[day |-> 0, hour |-> 10, minute |-> 30], [day |-> 0, hour |-> 15, minute |-> 0],
     [day |-> 0, hour |-> 23, minute |-> 30]}

\* dt + timedelta(hours = n)
PlusHours(dt, n) ==
    [day |-> dt.day + ((dt.hour + n) \div 24), hour |-> (dt.hour + n) % 24,
     minute |-> dt.minute]

Before(a, b) ==
    \/ a.day < b.day
    \/ a.day = b.day /\ a.hour < b.hour
    \/ a.day = b.day /\ a.hour = b.hour /\ a.minute < b.minute

\* _extract_datetime_from_message for an expression that does not raise: the
\* word "tomorrow" is looked for first and answers now + 1 day; "at 3pm" is
\* tried only when no day word is found
extract_datetime_from_message(when, clock) ==
    IF when \in {"tomorrow", "tomorrow at 3pm"}
    THEN Some([clock EXCEPT !.day = @ + 1])
    ELSE IF when = "at 3pm"
    THEN LET hour == 3 + 12
             target_time == [clock EXCEPT !.hour = hour, !.minute = 0]
         IN Some(IF Before(target_time, clock) THEN [target_time EXCEPT !.day = @ + 1]
                 ELSE target_time)
    ELSE None

\* _extract_event_details: start and end of the event; without a time
\* expression the event starts at the next full hour
extract_event_details(when, clock) ==
    LET time_info == extract_datetime_from_message(when, clock)
        start == IF time_info # None THEN time_info[1]
                 ELSE PlusHours([clock EXCEPT !.minute = 0], 1)
    IN [start_datetime |-> start, end_datetime |-> PlusHours(start, 1)]

\* _log_service_action: the insert into service_actions, any exception absorbed
log_service_action(category, log) ==
    <<Invocation(category, "insert", <<"service_actions">>, log)>>

\* mutant: an email intent that ends in an error is treated as no match
check_email_intent_error_is_no_match(m, send, log) ==
    IF "email" \notin m.matches THEN NoMatch
    ELSE LET recipient_email == extract_address(m.text)
             sent == <<Invocation("email", "send_email", recipient_email, send)>>
         IN IF recipient_email = <<>> THEN NoMatch
            ELSE IF send = "true"
            THEN Checked(Some(ServiceResult("email_sent", TRUE)),
                         sent \o log_service_action("email", log))
            ELSE Checked(None, sent)

check_email_intent(m, send, log) ==
    IF "email" \notin m.matches THEN NoMatch
    ELSE LET recipient_email == extract_address(m.text)
             sent == <<Invocation("email", "send_email", recipient_email, send)>>
         IN IF recipient_email = <<>>
            THEN Checked(Some(ServiceResult("email_error", FALSE)), <<>>)
            ELSE IF send = "true"
            THEN Checked(Some(ServiceResult("email_sent", TRUE)),
                         sent \o log_service_action("email", log))
            ELSE Checked(Some(ServiceResult("email_error", FALSE)), sent)

\* _extract_event_details catches the ValueError and returns None
check_calendar_intent(m, ev, log) ==
    IF "calendar" \notin m.matches THEN NoMatch
    ELSE LET created == <<Invocation("calendar", "create_event", <<>>, ev)>> IN
         IF extract_datetime_raises(m)
         THEN Checked(Some(ServiceResult("calendar_error", FALSE)), <<>>)
         ELSE IF ev = "id"
         THEN Checked(Some(ServiceResult("calendar_event_created", TRUE)),
                      created \o log_service_action("calendar", log))
         ELSE Checked(Some(ServiceResult("calendar_error", FALSE)), created)

\* mutant: the reminder record is inserted whatever create_event returned
check_reminder_intent_insert_without_id(m, ev, ins) ==
    IF "reminder" \notin m.matches THEN NoMatch
    ELSE LET created == <<Invocation("reminder", "create_event", <<>>, ev)>>
             stored == <<Invocation("reminder", "insert", <<"reminders">>, ins)>>
         IN IF extract_datetime_raises(m)
            THEN Checked(Some(ServiceResult("reminder_error", FALSE)), <<>>)
            ELSE IF ev = "raise"
            THEN Checked(Some(ServiceResult("reminder_error", FALSE)), created)
            ELSE IF ins = "raise" \/ ev # "id"
            THEN Checked(Some(ServiceResult("reminder_error", FALSE)), created \o stored)
            ELSE Checked(Some(ServiceResult("reminder_created", TRUE)), created \o stored)

\* mutant: the insert of the reminder record is outside the try block
check_reminder_intent_insert_unguarded(m, ev, ins) ==
    IF "reminder" \notin m.matches THEN NoMatch
    ELSE LET created == <<Invocation("reminder", "create_event", <<>>, ev)>>
             stored == <<Invocation("reminder", "insert", <<"reminders">>, ins)>>
         IN IF extract_datetime_raises(m)
            THEN Checked(Some(ServiceResult("reminder_error", FALSE)), <<>>)
            ELSE IF ev # "id"
            THEN Checked(Some(ServiceResult("reminder_error", FALSE)), created)
            ELSE IF ins = "raise"
            THEN [result |-> None, invoked |-> created \o stored, raised |-> TRUE]
            ELSE Checked(Some(ServiceResult("reminder_created", TRUE)), created \o stored)

check_reminder_intent(m, ev, ins) ==
    IF "reminder" \notin m.matches THEN NoMatch
    ELSE LET created == <<Invocation("reminder", "create_event", <<>>, ev)>>
             stored == <<Invocation("reminder", "insert", <<"reminders">>, ins)>>
         IN IF extract_datetime_raises(m)
            THEN Checked(Some(ServiceResult("reminder_error", FALSE)), <<>>)
            ELSE IF ev # "id"
            THEN Checked(Some(ServiceResult("reminder_error", FALSE)), created)
            ELSE IF ins = "raise"
            THEN Checked(Some(ServiceResult("reminder_error", FALSE)), created \o stored)
            ELSE Checked(Some(ServiceResult("reminder_created", TRUE)), created \o stored)

\* mutant: the query is stored whatever the message says
check_data_intent_logs_every_message(m, ins) ==
    LET stored == <<Invocation("data", "insert", <<"user_queries">>, ins)>> IN
    IF ins = "raise"
    THEN Checked(Some(ServiceResult("data_error", FALSE)), stored)
    ELSE Checked(Some(ServiceResult("data_query_logged", TRUE)), stored)

check_data_intent(m, ins) ==
    IF "data" \notin m.matches THEN NoMatch
    ELSE LET stored == <<Invocation("data", "insert", <<"user_queries">>, ins)>> IN
         IF ins = "raise"
         THEN Checked(Some(ServiceResult("data_error", FALSE)), stored)
         ELSE Checked(Some(ServiceResult("data_query_logged", TRUE)), stored)

NoServiceAction == ServiceResult("none", FALSE)

\* the context argument: absent (None, replaced by {}) or the conversation
\* history; it is handed to every check and read by none
Contexts == {"None", "conversation_history"}

\* a call of process_service_intent: the check it is at, the checks made, the
\* collaborator calls made, the dict returned
IdleMatcher ==
    [pc |-> "idle", message |-> MatcherMessage({}, <<>>, "none"), evaluated |-> <<>>,
     invoked |-> <<>>, result |-> None, raised |-> FALSE,
     clock |-> [day |-> 0, hour |-> 0, minute |-> 0], event |-> None,
     context |-> "None"]

\* ==== the knowledge base (src/services/knowledge_base.py) ======================
\* _cache_max_size is 128 in the service; the model's cache holds 2 entries so
\* that a third key fills it
cache_max_size == 2
kb_max_retries == 3

KbCalls == {"k1", "k2", "k3"}

\* the questions asked, with and without surrounding whitespace, and the
\* context argument (None when the caller passes none)
Questions == {"q1", " q1 ", "q2", " "}
KbContexts == {NoneStr, "", "user: hola"}

question_strip(question) ==
    IF question = " q1 " THEN "q1" ELSE IF question = " " THEN "" ELSE question

\* key = (question.strip(), context or "")
cache_key(question, context) ==
    <<question_strip(question), IF context = NoneStr THEN "" ELSE context>>

\* what the query engine answers: two texts, a text shorter than 10
\* characters, nothing, or it times out or raises
QueryOutcomes == {"answer A", "answer B", "short", "empty", "timeout", "error"}

\* _post_process_response drops an answer shorter than 10 characters
kb_post_process_response(response) == IF response = "short" THEN "" ELSE response

IdleKbCall ==
    [pc |-> "idle", op |-> "none", key |-> <<"", "">>, attempt |-> 0, executed |-> FALSE,
     ret |-> NoneStr]

\* the service after construction: not initialized, lock free, cache empty;
\* evicted is the key of the entry last evicted
NoKey == <<"", "">>

IdleKnowledgeBase ==
    [initialized |-> FALSE, api_key |-> TRUE, locked |-> FALSE, waiters |-> <<>>,
     cache |-> <<>>, evicted |-> NoKey, calls |-> [c \in KbCalls |-> IdleKbCall]]

\* self._query_cache.get(key)
cache_get(cache, key) ==
    IF \E i \in 1..Len(cache) : cache[i].key = key
    THEN (CHOOSE entry \in {cache[i] : i \in 1..Len(cache)} : entry.key = key).answer
    ELSE ""

\* mutant: the cache is written without evicting
cache_put_without_eviction(cache, key, answer) ==
    IF \E i \in 1..Len(cache) : cache[i].key = key
    THEN [i \in 1..Len(cache) |->
            IF cache[i].key = key THEN [key |-> key, answer |-> answer] ELSE cache[i]]
    ELSE Append(cache, [key |-> key, answer |-> answer])

\* if len(cache) >= max: pop the first key of the dict; cache[key] = answer.
\* A dict keeps its keys in insertion order and assigning to a key it holds
\* leaves the key where it is.
cache_put(cache, key, answer) ==
    LET kept == IF Len(cache) >= cache_max_size THEN Tail(cache) ELSE cache IN
    IF \E i \in 1..Len(kept) : kept[i].key = key
    THEN [i \in 1..Len(kept) |->
            IF kept[i].key = key THEN [key |-> key, answer |-> answer] ELSE kept[i]]
    ELSE Append(kept, [key |-> key, answer |-> answer])

\* the lock is released: its first waiter, if any, is woken and takes it when
\* it runs
release_lock(kb) == [kb EXCEPT !.locked = FALSE]

\* initialize returns ok to call c: an initialize call is done, a query goes
\* on to the query engine when the service is initialized and returns None
\* otherwise
initialize_returns(kb, c, ok) ==
    IF kb.calls[c].op = "initialize"
    THEN [kb EXCEPT !.calls[c].pc = "done",
                    !.calls[c].ret = IF ok THEN "True" ELSE "False"]
    ELSE IF ok
    THEN [kb EXCEPT !.calls[c].pc = "executing", !.calls[c].executed = TRUE]
    ELSE [kb EXCEPT !.calls[c].pc = "done", !.calls[c].ret = NoneStr]

\* _do_initialize up to its first attempt: without an API key it returns False
do_initialize(kb, c) ==
    IF ~kb.api_key
    THEN initialize_returns(release_lock(kb), c, FALSE)
    ELSE [kb EXCEPT !.calls[c].pc = "running", !.calls[c].attempt = 0]

\* mutant: no second look at _initialized once the lock is held
initialize_locked_without_double_check(kb, c) == do_initialize(kb, c)

\* inside the lock: "if self._initialized: return True", else _do_initialize
initialize_locked(kb, c) ==
    IF kb.initialized
    THEN initialize_returns(release_lock(kb), c, TRUE)
    ELSE do_initialize(kb, c)

\* initialize up to its first suspension: the lock is taken at once when it
\* is free and nobody waits for it
initialize(kb, c) ==
    IF kb.initialized
    THEN initialize_returns(kb, c, TRUE)
    ELSE IF ~kb.locked /\ kb.waiters = <<>>
    THEN initialize_locked([kb EXCEPT !.locked = TRUE], c)
    ELSE [kb EXCEPT !.waiters = Append(@, c), !.calls[c].pc = "waiting"]

\* one attempt of _do_initialize ends: success sets _initialized; after the
\* last failed attempt the loop ends and False is returned
attempt_ends(kb, c, outcome) ==
    IF outcome = "ok"
    THEN initialize_returns(release_lock([kb EXCEPT !.initialized = TRUE]), c, TRUE)
    ELSE IF kb.calls[c].attempt + 1 < kb_max_retries
    THEN [kb EXCEPT !.calls[c].attempt = @ + 1]
    ELSE initialize_returns(release_lock([kb EXCEPT !.calls[c].attempt = @ + 1]), c, FALSE)

\* query up to its first suspension
query(kb, c, question, context) ==
    LET key == cache_key(question, context)
        called == [kb EXCEPT !.calls[c].op = "query", !.calls[c].key = key]
    IN IF cache_get(kb.cache, key) # ""
       THEN [called EXCEPT !.calls[c].pc = "done", !.calls[c].ret = cache_get(kb.cache, key)]
       ELSE IF question_strip(question) = ""
       THEN [called EXCEPT !.calls[c].pc = "done", !.calls[c].ret = NoneStr]
       ELSE IF ~kb.initialized
       THEN initialize(called, c)
       ELSE [called EXCEPT !.calls[c].pc = "executing", !.calls[c].executed = TRUE]

\* the query engine answered (or wait_for timed out, or it raised): a
\* post-processed answer is written to the cache and returned
query_returns(kb, c, outcome) ==
    LET answer == IF outcome \in {"empty", "timeout", "error"} THEN ""
                  ELSE kb_post_process_response(outcome)
        key == kb.calls[c].key
    IN IF answer = ""
       THEN [kb EXCEPT !.calls[c].pc = "done", !.calls[c].ret = NoneStr]
       ELSE [kb EXCEPT !.calls[c].pc = "done", !.calls[c].ret = answer,
                       !.cache = cache_put(@, key, answer),
                       !.evicted = IF Len(kb.cache) >= cache_max_size
                                   THEN kb.cache[1].key ELSE @]

\* ---- actions: calls of the knowledge base ------------------------------------
\* Config.OPENAI_API_KEY is read from the environment when the process starts;
\* it may be missing
LoadConfigWithoutKey ==
    /\ kbase = IdleKnowledgeBase
    /\ kbase' = [kbase EXCEPT !.api_key = FALSE]
    /\ UNCHANGED <<sessVars, attached, turn, received, matcher, whatsapp, breaker>>

InitializeCalled(c) ==
    /\ kbase.calls[c].pc = "idle"
    /\ kbase' = initialize([kbase EXCEPT !.calls[c].op = "initialize"], c)
    /\ UNCHANGED <<sessVars, attached, turn, received, matcher, whatsapp, breaker>>

QueryCalled(c, question, context) ==
    /\ kbase.calls[c].pc = "idle"
    /\ kbase' = query(kbase, c, question, context)
    /\ UNCHANGED <<sessVars, attached, turn, received, matcher, whatsapp, breaker>>

\* the first waiter of the released lock runs and takes it
LockWakes(c) ==
    /\ kbase.calls[c].pc = "waiting"
    /\ ~kbase.locked
    /\ kbase.waiters # <<>> /\ Head(kbase.waiters) = c
    /\ kbase' = initialize_locked([kbase EXCEPT !.locked = TRUE, !.waiters = Tail(@)], c)
    /\ UNCHANGED <<sessVars, attached, turn, received, matcher, whatsapp, breaker>>

AttemptEnds(c, outcome) ==
    /\ kbase.calls[c].pc = "running"
    /\ kbase' = attempt_ends(kbase, c, outcome)
    /\ UNCHANGED <<sessVars, attached, turn, received, matcher, whatsapp, breaker>>

QueryReturns(c, outcome) ==
    /\ kbase.calls[c].pc = "executing"
    /\ kbase' = query_returns(kbase, c, outcome)
    /\ UNCHANGED <<sessVars, attached, turn, received, matcher, whatsapp, breaker>>

\* the caller has the value returned; its next call is another call
KbCallReturns(c) ==
    /\ kbase.calls[c].pc = "done"
    /\ kbase' = [kbase EXCEPT !.calls[c] = IdleKbCall]
    /\ UNCHANGED <<sessVars, attached, turn, received, matcher, whatsapp, breaker>>

\* queries of two callers, any question and context, every outcome of the
\* query engine; the first query initializes the service
NextCache ==
    \/ \E c \in {"k1", "k2"}, question \in Questions, context \in KbContexts :
            QueryCalled(c, question, context)
    \/ \E c \in KbCalls : LockWakes(c)
    \/ \E c \in KbCalls, outcome \in {"ok", "raise"} : AttemptEnds(c, outcome)
    \/ \E c \in KbCalls, outcome \in QueryOutcomes : QueryReturns(c, outcome)
    \/ \E c \in KbCalls : KbCallReturns(c)

\* calls of initialize, and queries that initialize, of three callers
NextInitialize ==
    \/ LoadConfigWithoutKey
    \/ \E c \in KbCalls : InitializeCalled(c)
    \/ \E c \in KbCalls : QueryCalled(c, "q1", NoneStr)
    \/ \E c \in KbCalls : LockWakes(c)
    \/ \E c \in KbCalls, outcome \in {"ok", "raise"} : AttemptEnds(c, outcome)
    \/ \E c \in KbCalls, outcome \in {"answer A", "error"} : QueryReturns(c, outcome)
    \/ \E c \in KbCalls : KbCallReturns(c)

\* ==== the circuit breaker (src/utils/helpers.py) ================================
\* the constructor's parameters (5 failures and 60 s by default)
failure_threshold == 2
recovery_timeout == 1

BreakerCalls == {"b1", "b2", "b3"}

\* the breaker after construction and the calls of the wrapped function;
\* last_failure_time None is NoTime
NoTime == 0 - 1

IdleBreaker ==
    [state |-> "CLOSED", failure_count |-> 0, last_failure_time |-> NoTime,
     calls |-> [c \in BreakerCalls |-> [pc |-> "idle", ret |-> NoneStr]]]

should_attempt_reset(b, time) ==
    b.last_failure_time # NoTime /\ time - b.last_failure_time >= recovery_timeout

\* mutant: a success closes the breaker and leaves the count
on_success_keeps_count(b) == [b EXCEPT !.state = "CLOSED"]

on_success(b) == [b EXCEPT !.failure_count = 0, !.state = "CLOSED"]

on_failure(b, time) ==
    [b EXCEPT !.failure_count = @ + 1, !.last_failure_time = time,
              !.state = IF b.failure_count + 1 >= failure_threshold THEN "OPEN" ELSE @]

\* wrapper up to the call of the wrapped function: an OPEN breaker lets the
\* call through as HALF_OPEN after the recovery timeout and raises before it
wrapper(b, c, time) ==
    IF b.state = "OPEN" /\ ~should_attempt_reset(b, time)
    THEN [b EXCEPT !.calls[c] = [pc |-> "done", ret |-> "Circuit breaker is OPEN"]]
    ELSE [b EXCEPT !.state = IF b.state = "OPEN" THEN "HALF_OPEN" ELSE @,
                   !.calls[c] = [pc |-> "invoked", ret |-> NoneStr]]

\* the wrapped function returned or raised
wrapper_after_call(b, c, outcome, time) ==
    LET counted == IF outcome = "ok" THEN on_success(b) ELSE on_failure(b, time) IN
    [counted EXCEPT !.calls[c] = [pc |-> "done", ret |-> outcome]]

\* ---- actions: calls through the breaker --------------------------------------
CallWrapped(c) ==
    /\ breaker.calls[c].pc = "idle"
    /\ breaker' = wrapper(breaker, c, now)
    /\ UNCHANGED <<sessVars, attached, turn, received, matcher, whatsapp, kbase>>

WrappedReturns(c, outcome) ==
    /\ breaker.calls[c].pc = "invoked"
    /\ breaker' = wrapper_after_call(breaker, c, outcome, now)
    /\ UNCHANGED <<sessVars, attached, turn, received, matcher, whatsapp, kbase>>

\* the caller has the result or the exception; its next call is another call
BreakerCallReturns(c) ==
    /\ breaker.calls[c].pc = "done"
    /\ breaker' = [breaker EXCEPT !.calls[c] = [pc |-> "idle", ret |-> NoneStr]]
    /\ UNCHANGED <<sessVars, attached, turn, received, matcher, whatsapp, kbase>>

\* ==== the messaging service (src/services/whatsapp_service_enhanced.py) =======
\* Concurrent calls of send_message, the semaphore they pass, and the posts
\* each call makes for the parts of its message.
max_retries == 3

\* the permits of self._semaphore, as the unit test of the concurrency limit
\* sets it (asyncio.Semaphore(1))
SemaphoreCapacity == 1

SendCalls == {"s1", "s2", "s3"}

\* _validate_api_config and the placeholder URL
ApiConfigs == {"valid", "invalid", "placeholder"}

\* how a post ends: the response's status, or an exception
PostOutcomes == {"200", "429", "500", "400", "timeout", "error"}

\* a call of send_message: where it is, the parts _split_message made of the
\* message, the part being sent, the index of the attempt, what
\* _send_single_message returned for the part, the posts made with what
\* followed each (log), and what send_message returned
IdleSend ==
    [pc |-> "idle", config |-> "valid", parts |-> 1, part |-> 1, attempt |-> 0,
     sent |-> NoneStr, log |-> <<>>, ret |-> NoneStr]

IdleWhatsapp ==
    [value |-> SemaphoreCapacity, waiters |-> <<>>, calls |-> [c \in SendCalls |-> IdleSend]]

\* mutant: every failed attempt is retried, whatever the status
send_single_message_retries_every_status(call, outcome) ==
    LET slept == IF outcome \in {"429", "500", "400"} THEN TRUE
                 ELSE IF outcome \in {"timeout", "error"}
                 THEN call.attempt < max_retries - 1
                 ELSE FALSE
        logged == [call EXCEPT !.log = Append(@, [part |-> call.part,
                                                  outcome |-> outcome,
                                                  slept |-> slept])]
    IN IF outcome = "200" THEN [logged EXCEPT !.sent = "True"]
       ELSE IF call.attempt + 1 < max_retries THEN [logged EXCEPT !.attempt = @ + 1]
       ELSE [logged EXCEPT !.sent = "False"]

\* one pass of the loop of _send_single_message: a post and what follows it.
\* Status 200 returns True; 429 and 5xx sleep the backoff and go on to the
\* next attempt; any other status returns False; a timeout or a network error
\* sleeps unless the attempt was the last; the loop exhausted returns False.
send_single_message(call, outcome) ==
    LET slept == IF outcome \in {"429", "500"} THEN TRUE
                 ELSE IF outcome \in {"timeout", "error"}
                 THEN call.attempt < max_retries - 1
                 ELSE FALSE
        logged == [call EXCEPT !.log = Append(@, [part |-> call.part,
                                                  outcome |-> outcome,
                                                  slept |-> slept])]
    IN IF outcome = "200" THEN [logged EXCEPT !.sent = "True"]
       ELSE IF outcome \in {"429", "500", "timeout", "error"}
       THEN IF call.attempt + 1 < max_retries THEN [logged EXCEPT !.attempt = @ + 1]
            ELSE [logged EXCEPT !.sent = "False"]
       ELSE [logged EXCEPT !.sent = "False"]

\* mutant: the permit is given back only when the message was sent
exit_send_message_keeps_permit_on_failure(w, c, call, ret) ==
    [w EXCEPT !.calls[c] = [call EXCEPT !.pc = "done", !.ret = ret],
              !.value = IF ret = "True" THEN @ + 1 ELSE @]

\* send_message ends, by return or by an exception: the finally clause
\* releases the semaphore
exit_send_message(w, c, call, ret) ==
    [w EXCEPT !.calls[c] = [call EXCEPT !.pc = "done", !.ret = ret],
              !.value = @ + 1]

\* the loop of send_message over the parts, after _send_single_message has
\* returned for a part: a failed part ends the call with False, the last part
\* sent ends it with True
send_message_after_part(w, c, call) ==
    IF call.sent = NoneStr THEN [w EXCEPT !.calls[c] = call]
    ELSE IF call.sent = "False" THEN exit_send_message(w, c, call, "False")
    ELSE IF call.part < call.parts
    THEN [w EXCEPT !.calls[c] = [call EXCEPT !.part = @ + 1, !.attempt = 0,
                                             !.sent = NoneStr]]
    ELSE exit_send_message(w, c, call, "True")

\* ---- actions of the session store -----------------------------------------
Tick ==
    /\ now < MaxTime
    /\ now' = now + 1
    /\ last' = [last EXCEPT !.fresh = FALSE]
    /\ UNCHANGED <<Config, sessions, appended>>
    /\ UNCHANGED turnVars

GetSession(u) ==
    LET g == get_session(sessions, u, now) IN
    /\ sessions' = g.store
    /\ appended' = LogAfter(g.store)
    /\ last' = Call("get", u, 0, g.ret, (DOMAIN sessions) \ (DOMAIN g.store))
    /\ UNCHANGED <<now, Config>>
    /\ UNCHANGED turnVars

\* a caller that holds the stored session object sets its last_activity to t
\* and saves it (tests/unit/test_session_manager.py:80-84)
SaveSession(u, t) ==
    /\ u \in DOMAIN sessions
    /\ t <= now
    /\ sessions' = save_session(sessions, u, [sessions[u] EXCEPT !.last_activity = t], now)
    /\ last' = Call("save", u, t, None, {})
    /\ UNCHANGED <<now, Config, appended>>
    /\ UNCHANGED turnVars

DeleteSession(u) ==
    /\ sessions' = delete_session(sessions, u)
    /\ appended' = LogAfter(sessions')
    /\ last' = Call("delete", u, 0, None, (DOMAIN sessions) \cap {u})
    /\ UNCHANGED <<now, Config>>
    /\ UNCHANGED turnVars

CreateSession(u) ==
    /\ sessions' = create_session(sessions, u, now)
    /\ appended' = [appended EXCEPT ![u] = <<>>]
    /\ last' = Call("create", u, 0, None, {})
    /\ UNCHANGED <<now, Config>>
    /\ UNCHANGED turnVars

AddMessage(u, role, content) ==
    /\ sessions' = add_message(sessions, u, role, content, NoMetadata, now)
    /\ appended' = [appended EXCEPT ![u] =
                       IF IsLive(u)
                       THEN Append(@, ConversationTurn(role, content, NoMetadata))
                       ELSE <<ConversationTurn(role, content, NoMetadata)>>]
    /\ last' = Call("add", u, 0, None,
                     (DOMAIN sessions) \ (DOMAIN get_session(sessions, u, now).store))
    /\ UNCHANGED <<now, Config>>
    /\ UNCHANGED turnVars

CleanupExpiredSessions ==
    /\ sessions' = cleanup_expired_sessions(sessions, now)
    /\ appended' = LogAfter(sessions')
    /\ last' = Call("cleanup", "all", 0, None, (DOMAIN sessions) \ (DOMAIN sessions'))
    /\ UNCHANGED <<now, Config>>
    /\ UNCHANGED turnVars

InitSession ==
    /\ now = 0
    /\ Config = PatchedConfig
    /\ sessions = <<>>
    /\ appended = [u \in Users |-> <<>>]
    /\ last = [op |-> "init", user |-> "all", arg |-> 0, ret |-> None,
               removed |-> {}, created |-> FALSE, again |-> FALSE, fresh |-> TRUE]
    /\ attached = FALSE
    /\ turn = [t \in TurnIds |-> IdleTurn]
    /\ received = <<>>
    /\ matcher = IdleMatcher
    /\ whatsapp = IdleWhatsapp
    /\ kbase = IdleKnowledgeBase
    /\ breaker = IdleBreaker

\* the store used by several users, a few messages each: expiry and cleanup
NextSession ==
    \/ Tick
    \/ \E u \in Users : GetSession(u)
    \/ \E u \in Users, t \in Times : SaveSession(u, t)
    \/ \E u \in Users : DeleteSession(u)
    \/ \E u \in Users : CreateSession(u)
    \/ \E u \in Users, m \in Messages :
            TotalAppended < MaxExpiryAppends /\ AddMessage(u, m[1], m[2])
    \/ CleanupExpiredSessions

SpecSession == InitSession /\ [][NextSession]_vars

\* the store used by one user, past the history limit
NextHistory ==
    \/ Tick
    \/ GetSession("u1")
    \/ \E t \in Times : SaveSession("u1", t)
    \/ DeleteSession("u1")
    \/ CreateSession("u1")
    \/ \E m \in Messages :
            TotalAppended < MaxAppends /\ AddMessage("u1", m[1], m[2])
    \/ CleanupExpiredSessions

SpecHistory == InitSession /\ [][NextHistory]_vars

\* the store as time goes by: the clock always advances, while every call of
\* the store, cleanup_expired_sessions included, is made by a message or by a
\* request to POST /api/sessions/cleanup, which may never come; the program
\* starts no task that calls the sweep on its own
SpecExpiry == InitSession /\ [][NextHistory]_vars /\ WF_vars(Tick)

\* ==== the conversation turn: the agent and the webhook handler =============
\* ---- the fixed texts ---------------------------------------------------------
GreetingResponse == "Hola! Soy el Asistente AI de Lunia Soluciones."
GoodbyeResponse == "Hasta luego! Gracias por contactar a Lunia Soluciones."
ErrorHandlingResponse == "Recibi un mensaje de audio, pero hubo un problema al procesarlo."
PricingResponse == "Nuestros servicios de consultoria en IA estan adaptados a cada cliente."
ServiceResponse == "Lunia Soluciones ofrece servicios integrales de consultoria en IA."
SchedulingResponse == "Estare encantado de ayudarte a programar una consulta!"
EmailUnavailableResponse == "Entiendo que quieres enviar un email. Esta funcionalidad requiere configuracion adicional."
CalendarUnavailableResponse == "Entiendo que quieres programar algo en calendario. Esta funcionalidad requiere configuracion adicional."
FallbackResponse == "Entiendo que estas preguntando sobre eso, pero no tengo informacion especifica disponible."
PersonalizationSuffix == " Hay algo mas en lo que pueda ayudarte?"
TimeoutApology == "Request timed out. Please try again."
ErrorApology == "I encountered an error processing your request. Please try again."
BackgroundErrorMessage == "Lo siento, hubo un error procesando tu mensaje. Por favor intenta de nuevo."
\* what the collaborators answer
KnowledgeBaseAnswer == "Lunia Soluciones es una consultora de inteligencia artificial."
ServiceActionMessage == "Email enviado exitosamente."

EmptyMessageError == "Empty message received"
TooLongError == "Message too long"

\* f"I apologize, but {error_msg.lower()} Please try again with a shorter message."
ValidationApology(error_msg) ==
    IF error_msg = EmptyMessageError
    THEN "I apologize, but empty message received Please try again with a shorter message."
    ELSE IF error_msg = TooLongError
    THEN "I apologize, but message too long Please try again with a shorter message."
    ELSE "I apologize, but an error occurred processing your message. Please try again with a shorter message."

\* ---- the messaging collaborator ---------------------------------------------
\* whatsapp_service.send_message(recipient, text): delivers and returns True,
\* fails and returns False, or raises
SendOutcomes == {"sent", "failed", "raise"}
Delivery(text, site, outcome) == [text |-> text, site |-> site, outcome |-> outcome]

\* ---- the graph nodes ---------------------------------------------------------
\* mutant: an empty message passes validation
validate_input_node_accepts_empty(st) ==
    LET message == strip(st.input_message) IN
    IF message.len > max_message_length * 2
    THEN [st EXCEPT !.validation_error = TooLongError]
    ELSE [st EXCEPT !.input_message = message, !.message_length = message.len]

validate_input_node(st) ==
    LET message == strip(st.input_message) IN
    IF message.len = 0
    THEN [st EXCEPT !.validation_error = EmptyMessageError]
    ELSE IF message.len > max_message_length * 2
    THEN [st EXCEPT !.validation_error = TooLongError]
    ELSE [st EXCEPT !.input_message = message, !.message_length = message.len]

\* mutant: the conditional edge always continues
should_continue_after_validation_always(st) == "continue"

should_continue_after_validation(st) ==
    IF st.validation_error # NoneStr THEN "error" ELSE "continue"

GreetingWords == {"hello", "hi", "hola", "hey", "good morning", "good afternoon", "good evening"}
GoodbyeWords == {"bye", "adios", "goodbye", "see you", "hasta luego", "chau", "thanks bye"}
PricingWords == {"price", "cost", "budget", "pricing"}
ServiceWords == {"service", "services", "what do you", "what can you"}
SchedulingWords == {"schedule", "appointment", "meeting", "call"}
EmailWords == {"email", "send", "enviar", "correo"}
CalendarWords == {"calendar", "evento", "cita", "recordatorio"}
AiWords == {"ai", "artificial intelligence", "machine learning", "ml"}

\* any(word in message for word in words)
ContainsAny(m, words) == m.kw \cap words # {}

\* mutant: the goodbye rule is tried before the greeting rule
detect_intent_goodbye_first(m) ==
    IF ContainsAny(m, GoodbyeWords) THEN "goodbye"
    ELSE IF ContainsAny(m, GreetingWords) THEN "greeting"
    ELSE IF ContainsAny(m, PricingWords) THEN "pricing_inquiry"
    ELSE IF ContainsAny(m, ServiceWords) THEN "service_inquiry"
    ELSE IF ContainsAny(m, SchedulingWords) THEN "scheduling"
    ELSE IF ContainsAny(m, EmailWords) THEN "email_request"
    ELSE IF ContainsAny(m, CalendarWords) THEN "calendar_request"
    ELSE IF ContainsAny(m, AiWords) THEN "ai_consultation"
    ELSE "general_inquiry"

detect_intent(m) ==
    IF ContainsAny(m, GreetingWords) THEN "greeting"
    ELSE IF ContainsAny(m, GoodbyeWords) THEN "goodbye"
    ELSE IF ContainsAny(m, PricingWords) THEN "pricing_inquiry"
    ELSE IF ContainsAny(m, ServiceWords) THEN "service_inquiry"
    ELSE IF ContainsAny(m, SchedulingWords) THEN "scheduling"
    ELSE IF ContainsAny(m, EmailWords) THEN "email_request"
    ELSE IF ContainsAny(m, CalendarWords) THEN "calendar_request"
    ELSE IF ContainsAny(m, AiWords) THEN "ai_consultation"
    ELSE "general_inquiry"

\* what process_service_intent can do with a message: a message that matches
\* no pattern gives {"action": "none", "success": False}
ServiceResults(m) ==
    IF m.svc = "none" THEN {"none", "raise"} ELSE {"success", "failed", "raise"}

\* mutant: a successful service action does not end the node, the intent
\* rules run after it
process_message_node_success_falls_through(st, svc) ==
    IF attached /\ svc = "raise"
    THEN [st EXCEPT !.processing_errors = Append(@, "Processing error")]
    ELSE IF attached /\ svc = "success"
    THEN LET intent == detect_intent(st.input_message) IN
         [st EXCEPT !.service_action_taken = TRUE,
                    !.response = ServiceActionMessage,
                    !.is_greeting = ContainsAny(st.input_message, GreetingWords),
                    !.is_goodbye = ContainsAny(st.input_message, GoodbyeWords),
                    !.intent = intent,
                    !.confidence = IF intent \in {"greeting", "goodbye"} THEN 90 ELSE 70]
    ELSE LET intent == detect_intent(st.input_message) IN
         [st EXCEPT !.service_action_taken = attached,
                    !.service_error = IF ~attached THEN @
                                      ELSE IF svc = "none" THEN "No service action detected"
                                      ELSE "Error al enviar el email. Verifica la configuracion.",
                    !.is_greeting = ContainsAny(st.input_message, GreetingWords),
                    !.is_goodbye = ContainsAny(st.input_message, GoodbyeWords),
                    !.intent = intent,
                    !.confidence = IF intent \in {"greeting", "goodbye"} THEN 90 ELSE 70]

\* mutant: a failed service action ends the node with the error as response
process_message_node_failure_returns(st, svc) ==
    IF attached /\ svc = "raise"
    THEN [st EXCEPT !.processing_errors = Append(@, "Processing error")]
    ELSE IF attached /\ svc = "success"
    THEN [st EXCEPT !.service_action_taken = TRUE,
                    !.response = ServiceActionMessage,
                    !.intent = "service_" \o st.input_message.svc \o "_sent",
                    !.confidence = 95]
    ELSE IF attached /\ svc = "failed"
    THEN [st EXCEPT !.service_action_taken = TRUE,
                    !.service_error = "Error al enviar el email. Verifica la configuracion.",
                    !.response = "Error al enviar el email. Verifica la configuracion.",
                    !.intent = "service_" \o st.input_message.svc \o "_error",
                    !.confidence = 95]
    ELSE LET intent == detect_intent(st.input_message) IN
         [st EXCEPT !.service_action_taken = attached,
                    !.service_error = IF ~attached THEN @
                                      ELSE IF svc = "none" THEN "No service action detected"
                                      ELSE "Error al enviar el email. Verifica la configuracion.",
                    !.is_greeting = ContainsAny(st.input_message, GreetingWords),
                    !.is_goodbye = ContainsAny(st.input_message, GoodbyeWords),
                    !.intent = intent,
                    !.confidence = IF intent \in {"greeting", "goodbye"} THEN 90 ELSE 70]

\* svc is the result of the Service Action Matcher (consulted only when the
\* integration is attached);
\* the action of a successful email check is email_sent; a result without
\* success, "none" included, is recorded as a failed action and the intent
\* rules run
process_message_node(st, svc) ==
    IF attached /\ svc = "raise"
    THEN [st EXCEPT !.processing_errors = Append(@, "Processing error")]
    ELSE IF attached /\ svc = "success"
    THEN [st EXCEPT !.service_action_taken = TRUE,
                    !.response = ServiceActionMessage,
                    !.intent = "service_" \o st.input_message.svc \o "_sent",
                    !.confidence = 95]
    ELSE LET intent == detect_intent(st.input_message) IN
         [st EXCEPT !.service_action_taken = attached,
                    !.service_error = IF ~attached THEN @
                                      ELSE IF svc = "none" THEN "No service action detected"
                                      ELSE "Error al enviar el email. Verifica la configuracion.",
                    !.is_greeting = ContainsAny(st.input_message, GreetingWords),
                    !.is_goodbye = ContainsAny(st.input_message, GoodbyeWords),
                    !.intent = intent,
                    !.confidence = IF intent \in {"greeting", "goodbye"} THEN 90 ELSE 70]

\* the collaborators the node invokes
process_message_calls(svc) ==
    (IF attached THEN {"matcher"} ELSE {}) \cup
    (IF attached /\ svc \in {"raise", "success"} THEN {} ELSE {"classifier"})

error_indicators ==
    {"[Audio transcription failed]",
     "[Audio file not found for transcription]",
     "[Audio file was a placeholder, not transcribed]",
     "[OpenAI client not available for transcription]",
     "[Audio message URL received, but live download/processing is not part of this simulation step]",
     "[Transcription resulted in empty text]",
     "[Audio transcription failed or unavailable]"}
is_error_message(m) == m.text \in error_indicators

\* the canned texts are far shorter than max_message_length - 50, so the
\* truncation branch is not taken and the suffix always fits
post_process_response(response, st) ==
    IF st.sender_phone # "" /\ ~st.is_goodbye /\ ~st.service_action_taken
    THEN response \o PersonalizationSuffix
    ELSE response

canned_response(st) ==
    IF st.intent = "greeting" THEN GreetingResponse
    ELSE IF st.intent = "goodbye" THEN GoodbyeResponse
    ELSE IF is_error_message(st.input_message) THEN ErrorHandlingResponse
    ELSE IF st.intent = "pricing_inquiry" THEN PricingResponse
    ELSE IF st.intent = "service_inquiry" THEN ServiceResponse
    ELSE IF st.intent = "scheduling" THEN SchedulingResponse
    ELSE IF st.intent = "email_request" /\ ~attached THEN EmailUnavailableResponse
    ELSE IF st.intent = "calendar_request" /\ ~attached THEN CalendarUnavailableResponse
    ELSE st.response

generate_response_node(st) ==
    IF st.service_action_taken /\ st.response # ""
    THEN st
    ELSE LET response == canned_response(st) IN
         IF response # ""
         THEN [st EXCEPT !.response = post_process_response(response, st)]
         ELSE st

\* whether the node calls send_message
sends_response(st) == st.response # "" /\ st.sender_phone # ""

\* mutant: a delivery that failed is taken for sent
send_response_node_ignores_failure(st, snd) ==
    IF ~sends_response(st) THEN st
    ELSE [st EXCEPT !.response_sent = TRUE]

send_response_node(st, snd) ==
    IF ~sends_response(st) THEN st
    ELSE IF snd = "raise"
    THEN [st EXCEPT !.processing_errors = Append(@, "Send error")]
    ELSE IF snd = "sent"
    THEN [st EXCEPT !.response_sent = TRUE]
    ELSE [st EXCEPT !.response_sent = FALSE,
                    !.processing_errors = Append(@, "Failed to send response")]

handle_error_node(st, snd) ==
    LET s1 == [st EXCEPT !.response = ValidationApology(st.validation_error),
                         !.message_type = "error"] IN
    IF st.sender_phone = "" \/ snd = "raise" THEN s1
    ELSE [s1 EXCEPT !.response_sent = (snd = "sent")]

\* ---- the driver: LuniaAgent.process_message -----------------------------------
needs_knowledge_base(st) ==
    st.response = "" /\ st.intent \notin {"greeting", "goodbye"}

\* `for role, content in recent_turns` unpacks every entry into two names:
\* it fails on the three-key dicts the webhook handler loads
context_fails(st) ==
    \E i \in 1..Len(st.conversation_history) :
        /\ i > Len(st.conversation_history) - 3
        /\ Cardinality(DOMAIN st.conversation_history[i]) # 2

\* mutant: the context is built from the whole history
kb_context_whole_history(history) == history

\* the context of the query: the last 3 turns of the history, each rendered
\* as "role: content"
kb_context(history) == LastN(history, 3)

\* the history a direct caller passes in the state: none, or (role, content)
\* pairs as AgentState declares them
PairHistories ==
    LET Pair(i) == [role |-> IF i % 2 = 1 THEN "user" ELSE "assistant", content |-> i] IN
    {[i \in 1..n |-> Pair(i)] : n \in {2, 4}}

\* knowledge_base.query: an answer, or None on a miss, a timeout of the query
\* or an exception ("context_error": the lookup raised before the query)
KnowledgeBaseOutcomes == {"answer", "miss", "timeout", "error"}
kb_response(kb) == IF kb = "answer" THEN KnowledgeBaseAnswer ELSE ""

\* mutant: a lookup without an answer leaves the response empty
knowledge_base_reply_keeps_empty(answer) == answer

\* the response the driver sets after the lookup: the answer, or the fallback
knowledge_base_reply(answer) == IF answer # "" THEN answer ELSE FallbackResponse

\* mutant: the send of the error message is not guarded
create_error_response_unguarded(st, error_message, snd) ==
    [st |-> [st EXCEPT !.response = error_message, !.message_type = "error",
                       !.response_sent = IF snd = "raise" THEN @ ELSE snd = "sent"],
     raised |-> (snd = "raise")]

\* _create_error_response: the state it returns and whether it raises
create_error_response(st, error_message, snd) ==
    [st |-> [st EXCEPT !.response = error_message, !.message_type = "error",
                       !.response_sent = IF snd = "raise" THEN @ ELSE snd = "sent"],
     raised |-> FALSE]

\* the content of a session entry: a text and, as a ghost, the turn it is of
UserEntry(m, t) == [text |-> m.text, pad |-> m.pad, of |-> t]
ReplyEntry(response, t) == [text |-> response, pad |-> FALSE, of |-> t]

SessionOutcomes == {"ok", "raise_first", "raise_second"}

\* mutant: the session update is left out
update_session_skipped(store, st, t, sess) == [store |-> store, st |-> st, log |-> <<>>]

\* mutant: an exception of the session store reaches the driver's except
\* branch, which replaces the response
update_session_unabsorbed(store, st, t, sess) ==
    LET user == UserEntry(st.input_message, t)
        reply == ReplyEntry(st.response, t)
        store1 == add_message(store, st.sender_phone, "user", user, NoMetadata, now)
        store2 == IF st.response # ""
                  THEN add_message(store1, st.sender_phone, "assistant", reply, NoMetadata, now)
                  ELSE store1
        failed == [st EXCEPT !.processing_errors = Append(@, "Session update error"),
                             !.response = ErrorApology, !.response_sent = FALSE]
    IN  IF sess = "raise_first"
        THEN [store |-> store, st |-> failed, log |-> <<>>]
        ELSE IF sess = "raise_second" /\ st.response # ""
        THEN [store |-> store1, st |-> failed,
              log |-> <<ConversationTurn("user", user, NoMetadata)>>]
        ELSE [store |-> store2, st |-> [st EXCEPT !.session_updated = TRUE],
              log |-> <<ConversationTurn("user", user, NoMetadata)>> \o
                      (IF st.response # ""
                       THEN <<ConversationTurn("assistant", reply, NoMetadata)>>
                       ELSE <<>>)]

\* _update_session_async for turn t: the store afterwards, the state, and the
\* entries appended.  sess says whether the session store raises.
update_session(store, st, t, sess) ==
    LET user == UserEntry(st.input_message, t)
        reply == ReplyEntry(st.response, t)
        store1 == add_message(store, st.sender_phone, "user", user, NoMetadata, now)
        store2 == IF st.response # ""
                  THEN add_message(store1, st.sender_phone, "assistant", reply, NoMetadata, now)
                  ELSE store1
        failed == [st EXCEPT !.processing_errors = Append(@, "Session update error")]
    IN  IF sess = "raise_first"
        THEN [store |-> store, st |-> failed, log |-> <<>>]
        ELSE IF sess = "raise_second" /\ st.response # ""
        THEN [store |-> store1, st |-> failed,
              log |-> <<ConversationTurn("user", user, NoMetadata)>>]
        ELSE [store |-> store2, st |-> [st EXCEPT !.session_updated = TRUE],
              log |-> <<ConversationTurn("user", user, NoMetadata)>> \o
                      (IF st.response # ""
                       THEN <<ConversationTurn("assistant", reply, NoMetadata)>>
                       ELSE <<>>)]

\* ---- the driver's bookkeeping ------------------------------------------------
\* the session log after a call appended entries
AppendLog(u, entries) ==
    IF entries = <<>> THEN appended
    ELSE [appended EXCEPT ![u] = (IF IsLive(u) THEN @ ELSE <<>>) \o entries]

LastAfter(u, entries) ==
    IF entries = <<>> THEN last ELSE Call("add", u, 0, None, {})

\* process_message returns st to its caller; the webhook handler goes on to
\* its own send when the response is not blank
ReturnFrom(t, st, exit, raised) ==
    [turn[t] EXCEPT !.st = st, !.exit = exit, !.propagated = raised,
                    !.returned = IF raised THEN None ELSE Some(st.response),
                    !.phase = IF turn[t].via = "webhook"
                              THEN IF raised THEN "bg_error"
                                   ELSE IF st.response # "" THEN "bg_send" ELSE "done"
                              ELSE "done"]

\* ---- actions: the webhook and its background task (src/api/main.py) ----------
WhatsappWebhook(t, m) ==
    /\ t = Len(received) + 1
    /\ turn[t].phase = "idle"
    /\ turn' = [turn EXCEPT ![t] = [@ EXCEPT !.phase = "bg_load", !.via = "webhook",
                                             !.message = m]]
    /\ received' = Append(received, t)
    /\ UNCHANGED <<now, Config, sessions, appended, last, attached, matcher, whatsapp, kbase, breaker>>

\* the dicts the handler loads from session.get_recent_history(10)
HistoryDicts(session) ==
    LET recent == LastN(session.conversation_history, 10) IN
    [i \in 1..Len(recent) |->
        [role |-> recent[i].role, content |-> recent[i].content, timestamp |-> "ts"]]

\* up to the await of send_typing
ProcessMessageBackground(t) ==
    /\ turn[t].phase = "bg_load"
    /\ LET g == get_session(sessions, Sender, now)
           history == IF g.ret = None THEN <<>> ELSE HistoryDicts(g.ret[1])
       IN /\ sessions' = g.store
          /\ appended' = LogAfter(g.store)
          /\ last' = Call("get", Sender, 0, g.ret, (DOMAIN sessions) \ (DOMAIN g.store))
          /\ turn' = [turn EXCEPT ![t] =
                        [@ EXCEPT !.phase = "typing",
                                  !.st = AgentState(turn[t].message, Sender, history)]]
    /\ UNCHANGED <<now, Config, attached, received, matcher, whatsapp, kbase, breaker>>

\* send_typing returns or raises; then the agent starts the graph in the
\* executor and awaits it
TypingSent(t, out) ==
    /\ turn[t].phase = "typing"
    /\ turn' = [turn EXCEPT ![t] =
                    IF out = "raise"
                    THEN [@ EXCEPT !.phase = "bg_error"]
                    ELSE [@ EXCEPT !.phase = "graph", !.gpc = "validate_input"]]
    /\ UNCHANGED <<now, Config, sessions, appended, last, attached, received, matcher, whatsapp, kbase, breaker>>

\* a caller (cli.py, the tests) awaits lunia_agent.process_message(state)
CallProcessMessageWith(t, m, history) ==
    /\ t = Len(received) + 1
    /\ turn[t].phase = "idle"
    /\ turn' = [turn EXCEPT ![t] =
                    [@ EXCEPT !.phase = "graph", !.gpc = "validate_input",
                              !.via = "direct", !.message = m,
                              !.st = AgentState(m, Sender, history)]]
    /\ received' = Append(received, t)
    /\ UNCHANGED <<now, Config, sessions, appended, last, attached, matcher, whatsapp, kbase, breaker>>

\* cli.py, the webhook test endpoint and the scripts pass an empty history
CallProcessMessage(t, m) == CallProcessMessageWith(t, m, <<>>)

\* ---- actions: the graph, run in the executor thread --------------------------
ValidateInput(t) ==
    /\ turn[t].gpc = "validate_input"
    /\ LET st == validate_input_node(turn[t].st) IN
       turn' = [turn EXCEPT ![t] =
                    [@ EXCEPT !.st = st,
                              !.gpc = IF should_continue_after_validation(st) = "error"
                                      THEN "handle_error" ELSE "process_message"]]
    /\ UNCHANGED <<now, Config, sessions, appended, last, attached, received, matcher, whatsapp, kbase, breaker>>

ProcessMessageNode(t, svc) ==
    /\ turn[t].gpc = "process_message"
    /\ svc \in (IF attached THEN ServiceResults(turn[t].st.input_message) ELSE {"none"})
    /\ turn' = [turn EXCEPT ![t] =
                    [@ EXCEPT !.st = process_message_node(@, svc),
                              !.calls = @ \cup process_message_calls(svc),
                              !.gpc = "generate_response"]]
    /\ UNCHANGED <<now, Config, sessions, appended, last, attached, received, matcher, whatsapp, kbase, breaker>>

GenerateResponse(t) ==
    /\ turn[t].gpc = "generate_response"
    /\ turn' = [turn EXCEPT ![t] =
                    [@ EXCEPT !.st = generate_response_node(@),
                              !.gpc = "send_response"]]
    /\ UNCHANGED <<now, Config, sessions, appended, last, attached, received, matcher, whatsapp, kbase, breaker>>

SendResponse(t, snd) ==
    /\ turn[t].gpc = "send_response"
    /\ sends_response(turn[t].st) \/ snd = "sent"
    /\ turn' = [turn EXCEPT ![t] =
                    [@ EXCEPT !.st = send_response_node(@, snd),
                              !.sends = IF sends_response(turn[t].st)
                                        THEN Append(@, Delivery(turn[t].st.response,
                                                                "send_response", snd))
                                        ELSE @,
                              !.gpc = "end"]]
    /\ UNCHANGED <<now, Config, sessions, appended, last, attached, received, matcher, whatsapp, kbase, breaker>>

HandleError(t, snd) ==
    /\ turn[t].gpc = "handle_error"
    /\ LET st == handle_error_node(turn[t].st, snd) IN
       turn' = [turn EXCEPT ![t] =
                    [@ EXCEPT !.st = st,
                              !.sends = IF st.sender_phone # ""
                                        THEN Append(@, Delivery(st.response, "handle_error", snd))
                                        ELSE @,
                              !.gpc = "end"]]
    /\ UNCHANGED <<now, Config, sessions, appended, last, attached, received, matcher, whatsapp, kbase, breaker>>

\* ---- actions: the driver -------------------------------------------------------
\* The event loop may resume the awaiting coroutines in any order.
\* compiled_graph.invoke raises: except Exception
GraphRaises(t, snd) ==
    /\ turn[t].phase = "graph"
    /\ turn[t].gpc \in GraphNodes
    /\ LET r == create_error_response(turn[t].st, ErrorApology, snd) IN
       turn' = [turn EXCEPT ![t] =
                    [ReturnFrom(t, r.st, "error", r.raised) EXCEPT
                        !.gpc = "raised",
                        !.sends = Append(@, Delivery(ErrorApology, "error_response", snd))]]
    /\ UNCHANGED <<now, Config, sessions, appended, last, attached, received, matcher, whatsapp, kbase, breaker>>

\* wait_for gives up after 60 seconds: except asyncio.TimeoutError.  The
\* executor thread is not interrupted: the graph goes on.
TurnTimeout(t, snd) ==
    /\ turn[t].phase = "graph"
    /\ turn[t].gpc \in GraphNodes
    /\ LET r == create_error_response(turn[t].st, TimeoutApology, snd) IN
       turn' = [turn EXCEPT ![t] =
                    [ReturnFrom(t, r.st, "timeout", r.raised) EXCEPT
                        !.elapsed = TRUE,
                        !.sends = Append(@, Delivery(TimeoutApology, "error_response", snd))]]
    /\ UNCHANGED <<now, Config, sessions, appended, last, attached, received, matcher, whatsapp, kbase, breaker>>

\* the graph returned a response (or a greeting/goodbye intent): update the
\* session and return
FinishTurn(t, sess) ==
    /\ turn[t].phase = "graph"
    /\ turn[t].gpc = "end"
    /\ ~needs_knowledge_base(turn[t].st)
    /\ LET r == update_session(sessions, turn[t].st, t, sess) IN
       /\ sessions' = r.store
       /\ appended' = AppendLog(Sender, r.log)
       /\ last' = LastAfter(Sender, r.log)
       /\ turn' = [turn EXCEPT ![t] = ReturnFrom(t, r.st, "normal", FALSE)]
    /\ UNCHANGED <<now, Config, attached, received, matcher, whatsapp, kbase, breaker>>

\* the graph left the response empty: await knowledge_base.query
QueryKnowledgeBase(t) ==
    /\ turn[t].phase = "graph"
    /\ turn[t].gpc = "end"
    /\ needs_knowledge_base(turn[t].st)
    /\ ~context_fails(turn[t].st)
    /\ turn' = [turn EXCEPT ![t] =
                    [@ EXCEPT !.phase = "kb", !.calls = @ \cup {"kb"},
                              !.context = kb_context(turn[t].st.conversation_history)]]
    /\ UNCHANGED <<now, Config, sessions, appended, last, attached, received, matcher, whatsapp, kbase, breaker>>

\* the 60 seconds since the start of the turn pass while the driver awaits
\* the lookup: wait_for (lines 68-71) covers the graph only, so nothing
\* happens in the program
LookupOutlastsTimeout(t) ==
    /\ turn[t].phase = "kb"
    /\ ~turn[t].elapsed
    /\ turn' = [turn EXCEPT ![t] = [@ EXCEPT !.elapsed = TRUE]]
    /\ UNCHANGED <<now, Config, sessions, appended, last, attached, received, matcher, whatsapp, kbase, breaker>>

\* lines 76-89 after the lookup ended as kb says: the response, the send, the
\* session update, the return.  snd2 is the send of the error response when
\* the first send raises.
AfterKnowledgeBase(t, kb, snd, snd2, sess) ==
    LET st1 == [turn[t].st EXCEPT !.response = knowledge_base_reply(kb_response(kb))]
        send == ~st1.response_sent /\ st1.response # ""
        sent == Append(turn[t].sends, Delivery(st1.response, "process_message", snd))
    IN  IF send /\ snd = "raise"
        THEN LET r == create_error_response(st1, ErrorApology, snd2) IN
             /\ turn' = [turn EXCEPT ![t] =
                            [ReturnFrom(t, r.st, "error", r.raised) EXCEPT
                                !.kb = kb,
                                !.sends = Append(sent, Delivery(ErrorApology,
                                                                "error_response", snd2))]]
             /\ UNCHANGED <<sessions, appended, last>>
        ELSE LET st2 == IF send THEN [st1 EXCEPT !.response_sent = (snd = "sent")] ELSE st1
                 r == update_session(sessions, st2, t, sess)
             IN /\ sessions' = r.store
                /\ appended' = AppendLog(Sender, r.log)
                /\ last' = LastAfter(Sender, r.log)
                /\ turn' = [turn EXCEPT ![t] =
                              [ReturnFrom(t, r.st, "normal", FALSE) EXCEPT
                                  !.kb = kb,
                                  !.sends = IF send THEN sent ELSE @]]

\* building the context raises: _query_knowledge_base_async returns None
\* without querying
KnowledgeBaseContextFails(t, snd, snd2, sess) ==
    /\ turn[t].phase = "graph"
    /\ turn[t].gpc = "end"
    /\ needs_knowledge_base(turn[t].st)
    /\ context_fails(turn[t].st)
    /\ snd2 = "sent" \/ snd = "raise"
    /\ sess = "ok" \/ snd # "raise"
    /\ AfterKnowledgeBase(t, "context_error", snd, snd2, sess)
    /\ UNCHANGED <<now, Config, attached, received, matcher, whatsapp, kbase, breaker>>

KnowledgeBaseReturns(t, kb, snd, snd2, sess) ==
    /\ turn[t].phase = "kb"
    /\ snd2 = "sent" \/ snd = "raise"
    /\ sess = "ok" \/ snd # "raise"
    /\ AfterKnowledgeBase(t, kb, snd, snd2, sess)
    /\ UNCHANGED <<now, Config, attached, received, matcher, whatsapp, kbase, breaker>>

\* ---- actions: the rest of the background task ---------------------------------
\* the handler's own send_message (of the response process_message returned)
\* completed: on success it saves the conversation to the session
BackgroundSend(t, snd) ==
    /\ turn[t].phase = "bg_send"
    /\ LET st == turn[t].st
           user == ConversationTurn("user", UserEntry(turn[t].message, t),
                                    [message_type |-> st.message_type])
           reply == ConversationTurn("assistant", ReplyEntry(st.response, t),
                                     [intent |-> st.intent, processing_time |-> NoneStr,
                                      confidence |-> st.confidence])
           store1 == add_message(sessions, Sender, user.role, user.content,
                                 user.metadata, now)
           store2 == add_message(store1, Sender, reply.role, reply.content,
                                 reply.metadata, now)
           log == IF snd = "sent" THEN <<user, reply>> ELSE <<>>
       IN /\ sessions' = IF snd = "sent" THEN store2 ELSE sessions
          /\ appended' = AppendLog(Sender, log)
          /\ last' = LastAfter(Sender, log)
          /\ turn' = [turn EXCEPT ![t] =
                        [@ EXCEPT !.phase = IF snd = "raise" THEN "bg_error" ELSE "done",
                                  !.sends = Append(@, Delivery(turn[t].returned[1],
                                                               "background", snd))]]
    /\ UNCHANGED <<now, Config, attached, received, matcher, whatsapp, kbase, breaker>>

\* except Exception: the handler sends its error message
BackgroundError(t, snd) ==
    /\ turn[t].phase = "bg_error"
    /\ turn' = [turn EXCEPT ![t] =
                    [@ EXCEPT !.phase = "done",
                              !.sends = Append(@, Delivery(BackgroundErrorMessage,
                                                           "background_error", snd))]]
    /\ UNCHANGED <<now, Config, sessions, appended, last, attached, received, matcher, whatsapp, kbase, breaker>>

InitStore ==
    /\ now = 0
    /\ Config = DefaultConfig
    /\ sessions = <<>>
    /\ appended = [u \in Users |-> <<>>]
    /\ last = [op |-> "init", user |-> "all", arg |-> 0, ret |-> None,
               removed |-> {}, created |-> FALSE, again |-> FALSE, fresh |-> TRUE]
    /\ turn = [t \in TurnIds |-> IdleTurn]
    /\ received = <<>>
    /\ matcher = IdleMatcher
    /\ whatsapp = IdleWhatsapp
    /\ kbase = IdleKnowledgeBase
    /\ breaker = IdleBreaker

\* the deployed service: api/main.py attaches the service integration
InitTurn == InitStore /\ attached = TRUE

\* several messages of one sender, handled concurrently; the collaborators
\* answer (a delivery may fail, the knowledge base may miss)
NextTurn ==
    \E t \in TurnIds :
        \/ \E m \in {HolaMsg, InquiryMsg} : WhatsappWebhook(t, m)
        \/ \E m \in {HolaMsg, InquiryMsg} : CallProcessMessage(t, m)
        \/ ProcessMessageBackground(t)
        \/ TypingSent(t, "ok")
        \/ ValidateInput(t)
        \/ ProcessMessageNode(t, "none")
        \/ GenerateResponse(t)
        \/ SendResponse(t, "sent")
        \/ FinishTurn(t, "ok")
        \/ QueryKnowledgeBase(t)
        \/ \E kb \in {"answer", "miss"} : KnowledgeBaseReturns(t, kb, "sent", "sent", "ok")
        \/ KnowledgeBaseContextFails(t, "sent", "sent", "ok")
        \/ \E snd \in {"sent", "failed"} : BackgroundSend(t, snd)

SpecTurn == InitTurn /\ [][NextTurn]_vars

\* one message, every kind of input, every collaborator may fail
InitAgent == InitStore /\ attached \in BOOLEAN

AgentMessages ==
    {EmptyMsg, BlankMsg, HolaMsg, InquiryMsg, PrecioMsg, EmailMsg, LimitMsg, TooLongMsg}
        \cup SentinelMessages

NextAgent ==
    \/ \E m \in AgentMessages : WhatsappWebhook(1, m)
    \/ \E m \in AgentMessages : CallProcessMessage(1, m)
    \/ \E history \in PairHistories : CallProcessMessageWith(1, InquiryMsg, history)
    \/ ProcessMessageBackground(1)
    \/ \E out \in {"ok", "raise"} : TypingSent(1, out)
    \/ ValidateInput(1)
    \/ \E svc \in {"none", "success", "failed", "raise"} : ProcessMessageNode(1, svc)
    \/ GenerateResponse(1)
    \/ \E snd \in SendOutcomes : SendResponse(1, snd)
    \/ \E snd \in SendOutcomes : HandleError(1, snd)
    \/ \E snd \in SendOutcomes : GraphRaises(1, snd)
    \/ \E snd \in SendOutcomes : TurnTimeout(1, snd)
    \/ \E sess \in SessionOutcomes : FinishTurn(1, sess)
    \/ QueryKnowledgeBase(1)
    \/ LookupOutlastsTimeout(1)
    \/ \E kb \in KnowledgeBaseOutcomes, snd \in SendOutcomes, snd2 \in SendOutcomes,
          sess \in SessionOutcomes : KnowledgeBaseReturns(1, kb, snd, snd2, sess)
    \/ \E snd \in SendOutcomes : BackgroundSend(1, snd)
    \/ \E snd \in SendOutcomes : BackgroundError(1, snd)

SpecAgent == InitAgent /\ [][NextAgent]_vars

\* ---- the graph alone ------------------------------------------------------------
\* compiled_graph.invoke in its executor thread: the thread runs node after
\* node, whatever each node's collaborators answer, and is not stopped by the
\* driver's timeout
NextGraph ==
    \/ \E m \in AgentMessages : CallProcessMessage(1, m)
    \/ ValidateInput(1)
    \/ \E svc \in {"none", "success", "failed", "raise"} : ProcessMessageNode(1, svc)
    \/ GenerateResponse(1)
    \/ \E snd \in SendOutcomes : SendResponse(1, snd)
    \/ \E snd \in SendOutcomes : HandleError(1, snd)
    \/ \E snd \in SendOutcomes : TurnTimeout(1, snd)

SpecGraph ==
    /\ InitAgent
    /\ [][NextGraph]_vars
    /\ WF_vars(ValidateInput(1))
    /\ WF_vars(\E svc \in {"none", "success", "failed", "raise"} : ProcessMessageNode(1, svc))
    /\ WF_vars(GenerateResponse(1))
    /\ WF_vars(\E snd \in SendOutcomes : SendResponse(1, snd))
    /\ WF_vars(\E snd \in SendOutcomes : HandleError(1, snd))

\* ---- the intent rules alone: any combination of keywords ----------------------
\* `word in message` is a substring test, so a text that contains a keyword
\* contains every keyword that is part of it ("hi" in "machine learning",
\* "ai" in "email", "bye" in "goodbye", "service" in "services")
ClassifierWords ==
    {"hola", "hi", "bye", "goodbye", "price", "service", "services", "meeting", "email",
     "calendar", "ai", "machine learning"}

ClassifierMessages ==
    {Message("keywords", FALSE, 8, kw, "none") :
        kw \in {k \in SUBSET ClassifierWords :
                    /\ "machine learning" \in k => "hi" \in k
                    /\ "email" \in k => "ai" \in k
                    /\ "goodbye" \in k => "bye" \in k
                    /\ "services" \in k => "service" \in k}}

NextClassifier ==
    \/ \E m \in ClassifierMessages : CallProcessMessage(1, m)
    \/ ValidateInput(1)
    \/ \E svc \in {"none", "raise"} : ProcessMessageNode(1, svc)

SpecClassifier == InitAgent /\ [][NextClassifier]_vars

\* ---- actions: one call of process_service_intent ------------------------------
CallProcessServiceIntent(m, clock, context) ==
    /\ matcher.pc = "idle"
    /\ matcher' = [matcher EXCEPT !.pc = "email", !.message = m, !.clock = clock,
                                  !.context = context]
    /\ UNCHANGED <<now, Config, sessions, appended, last, attached, turn, received, whatsapp, kbase, breaker>>

\* after a category's check: return its dict, or go on to the next check
AfterCheck(category, checked, next) ==
    [matcher EXCEPT !.evaluated = Append(@, category),
                    !.invoked = @ \o checked.invoked,
                    !.result = checked.result,
                    !.raised = checked.raised,
                    !.pc = IF checked.raised \/ checked.result # None
                           THEN "returned" ELSE next]

CheckEmailIntent(send, log) ==
    /\ matcher.pc = "email"
    /\ matcher' = AfterCheck("email", check_email_intent(matcher.message, send, log),
                             "calendar")
    /\ UNCHANGED <<now, Config, sessions, appended, last, attached, turn, received, whatsapp, kbase, breaker>>

CheckCalendarIntent(ev, log) ==
    /\ matcher.pc = "calendar"
    /\ LET checked == check_calendar_intent(matcher.message, ev, log) IN
        matcher' = [AfterCheck("calendar", checked, "reminder") EXCEPT
                        !.event = IF checked.invoked = <<>> THEN @
                                  ELSE Some(extract_event_details(matcher.message.when,
                                                                  matcher.clock))]
    /\ UNCHANGED <<now, Config, sessions, appended, last, attached, turn, received, whatsapp, kbase, breaker>>

CheckReminderIntent(ev, ins) ==
    /\ matcher.pc = "reminder"
    /\ matcher' = AfterCheck("reminder", check_reminder_intent(matcher.message, ev, ins),
                             "data")
    /\ UNCHANGED <<now, Config, sessions, appended, last, attached, turn, received, whatsapp, kbase, breaker>>

CheckDataIntent(ins) ==
    /\ matcher.pc = "data"
    /\ matcher' = AfterCheck("data", check_data_intent(matcher.message, ins), "none")
    /\ UNCHANGED <<now, Config, sessions, appended, last, attached, turn, received, whatsapp, kbase, breaker>>

\* no category matched
ReturnNoServiceAction ==
    /\ matcher.pc = "none"
    /\ matcher' = [matcher EXCEPT !.result = Some(NoServiceAction), !.pc = "returned"]
    /\ UNCHANGED <<now, Config, sessions, appended, last, attached, turn, received, whatsapp, kbase, breaker>>

InitMatcher == InitStore /\ attached = TRUE

\* one call of the matcher, any message, every collaborator may fail
NextMatcher ==
    \/ \E m \in MatcherMessages, clock \in ClockTimes, context \in Contexts :
            CallProcessServiceIntent(m, clock, context)
    \/ \E send \in SendEmailOutcomes, log \in InsertOutcomes : CheckEmailIntent(send, log)
    \/ \E ev \in CreateEventOutcomes, log \in InsertOutcomes : CheckCalendarIntent(ev, log)
    \/ \E ev \in CreateEventOutcomes, ins \in InsertOutcomes : CheckReminderIntent(ev, ins)
    \/ \E ins \in InsertOutcomes : CheckDataIntent(ins)
    \/ ReturnNoServiceAction

SpecMatcher == InitMatcher /\ [][NextMatcher]_vars

\* calls through one breaker, overlapping, while the clock advances
NextBreaker ==
    \/ Tick
    \/ \E c \in BreakerCalls : CallWrapped(c)
    \/ \E c \in BreakerCalls, outcome \in {"ok", "raise"} : WrappedReturns(c, outcome)
    \/ \E c \in BreakerCalls : BreakerCallReturns(c)

SpecBreaker == InitTurn /\ [][NextBreaker]_vars

SpecCache == InitTurn /\ [][NextCache]_vars
SpecInitialize == InitTurn /\ [][NextInitialize]_vars

\* ---- actions: calls of send_message ---------------------------------------------
\* await self._semaphore.acquire(): the call takes a permit at once when one
\* is free and nobody waits, and waits in line otherwise
CallSendMessage(c, config, parts) ==
    /\ whatsapp.calls[c].pc \in {"idle", "done"}
    /\ LET call == [IdleSend EXCEPT !.config = config, !.parts = parts] IN
       whatsapp' =
            IF whatsapp.value > 0 /\ whatsapp.waiters = <<>>
            THEN [whatsapp EXCEPT !.calls[c] = [call EXCEPT !.pc = "acquired"],
                                  !.value = @ - 1]
            ELSE [whatsapp EXCEPT !.calls[c] = [call EXCEPT !.pc = "waiting"],
                                  !.waiters = Append(@, c)]
    /\ UNCHANGED <<now, Config, sessions, appended, last, attached, turn, received, matcher, kbase, breaker>>

\* a release wakes the first waiter, which takes the permit
SemaphoreWakes(c) ==
    /\ whatsapp.calls[c].pc = "waiting"
    /\ whatsapp.value > 0
    /\ Head(whatsapp.waiters) = c
    /\ whatsapp' = [whatsapp EXCEPT !.calls[c].pc = "acquired",
                                    !.value = @ - 1,
                                    !.waiters = Tail(@)]
    /\ UNCHANGED <<now, Config, sessions, appended, last, attached, turn, received, matcher, kbase, breaker>>

\* inside the try: the configuration check, the rate limit, the placeholder
\* URL, the split of the message
SendMessageStarts(c) ==
    /\ whatsapp.calls[c].pc = "acquired"
    /\ LET call == whatsapp.calls[c] IN
       whatsapp' =
            IF call.config = "invalid" THEN exit_send_message(whatsapp, c, call, "False")
            ELSE IF call.config = "placeholder"
            THEN exit_send_message(whatsapp, c, call, "True")
            ELSE [whatsapp EXCEPT !.calls[c].pc = "sending"]
    /\ UNCHANGED <<now, Config, sessions, appended, last, attached, turn, received, matcher, kbase, breaker>>

\* one attempt to post the current part
PostMessage(c, outcome) ==
    /\ whatsapp.calls[c].pc = "sending"
    /\ whatsapp' = send_message_after_part(whatsapp, c,
                        send_single_message(whatsapp.calls[c], outcome))
    /\ UNCHANGED <<now, Config, sessions, appended, last, attached, turn, received, matcher, kbase, breaker>>

\* an exception leaves send_message (the task is cancelled: CancelledError
\* is no Exception and passes the handlers of _send_single_message)
SendMessageRaises(c) ==
    /\ whatsapp.calls[c].pc \in {"acquired", "sending"}
    /\ whatsapp' = exit_send_message(whatsapp, c, whatsapp.calls[c], "raise")
    /\ UNCHANGED <<now, Config, sessions, appended, last, attached, turn, received, matcher, kbase, breaker>>

\* one call at a time, every configuration, messages of one and two parts,
\* every outcome of a post
NextSend ==
    \/ \E config \in ApiConfigs, parts \in 1..2 : CallSendMessage("s1", config, parts)
    \/ SendMessageStarts("s1")
    \/ \E outcome \in PostOutcomes : PostMessage("s1", outcome)
    \/ SendMessageRaises("s1")

SpecSend == InitTurn /\ [][NextSend]_vars

\* concurrent calls, one after another from each caller
NextSemaphore ==
    \E c \in SendCalls :
        \/ \E config \in ApiConfigs : CallSendMessage(c, config, 1)
        \/ SemaphoreWakes(c)
        \/ SendMessageStarts(c)
        \/ \E outcome \in {"200", "500"} : PostMessage(c, outcome)
        \/ SendMessageRaises(c)

\* the event loop runs every task that is ready, a post ends (the HTTP
\* session's total timeout is 30 s) and a sleep ends; nothing obliges a
\* caller to call, or a task to be cancelled
SpecSemaphore ==
    /\ InitTurn
    /\ [][NextSemaphore]_vars
    /\ \A c \in SendCalls :
        /\ WF_vars(SemaphoreWakes(c))
        /\ WF_vars(SendMessageStarts(c))
        /\ WF_vars(\E outcome \in {"200", "500"} : PostMessage(c, outcome))

\* ==== properties of the session store (SpecSession, SpecHistory) ======================
History(u) == sessions[u].conversation_history

\* the newest n entries of a log, oldest first
Newest(log, n) ==
    [i \in 1..(IF Len(log) < n THEN Len(log) ELSE n) |->
        log[i + (IF Len(log) < n THEN 0 ELSE Len(log) - n)]]

\* inactive for longer than the timeout at the current time
OlderThanTimeout(session) ==
    now - session.last_activity > Config.SESSION_TIMEOUT_MINUTES

\* the step is a call of op for user u (every step of the store is a call,
\* which records itself in last, or a tick of the clock)
Called(op, u) == last'.op = op /\ last'.user = u /\ now' = now

\* C1: the history of a stored session never exceeds MAX_CONVERSATION_HISTORY
\* and is exactly the newest MAX_CONVERSATION_HISTORY messages appended to
\* the session, in append order (the oldest are evicted first).
C1_HistoryIsNewestAppended ==
    \A u \in DOMAIN sessions :
        /\ Len(History(u)) <= Config.MAX_CONVERSATION_HISTORY
        /\ History(u) = Newest(appended[u], Config.MAX_CONVERSATION_HISTORY)

C1_Witness ==
    \E u \in DOMAIN sessions :
        /\ last.op = "add" /\ last.user = u
        /\ Len(appended[u]) > Config.MAX_CONVERSATION_HISTORY
        /\ appended[u][1] # appended[u][Len(appended[u])]

\* C4: get_session on a session older than the timeout returns None and
\* deletes it; cleanup_expired_sessions removes every session older than the
\* timeout and leaves every other session stored, unchanged and retrievable.
C4_ExpiredTreatedAsAbsent ==
    [][ /\ \A u \in Users :
            (Called("get", u) /\ u \in DOMAIN sessions /\ OlderThanTimeout(sessions[u]))
                => (last'.ret = None /\ u \notin DOMAIN sessions')
        /\ Called("cleanup", "all") =>
            \A u \in DOMAIN sessions :
                IF OlderThanTimeout(sessions[u])
                THEN u \notin DOMAIN sessions'
                ELSE /\ u \in DOMAIN sessions'
                     /\ sessions'[u] = sessions[u]
                     /\ get_session(sessions', u, now).ret = Some(sessions[u])
      ]_vars

C4_Witness ==
    /\ last.op = "cleanup" /\ last.fresh
    /\ last.removed # {}
    /\ \E u \in DOMAIN sessions : now - sessions[u].last_activity = Config.SESSION_TIMEOUT_MINUTES

\* C5 as stated: two consecutive get_session calls for a user with no write
\* in between return equal values.
C5_GetIdempotent ==
    [][ \A u \in Users :
            (last.op = "get" /\ last.user = u /\ Called("get", u))
                => last'.ret = last.ret
      ]_vars

\* C5 amended: two consecutive get_session calls for a user with no write in
\* between return equal snapshots (same history, created_at, last_activity),
\* unless the session has become older than the timeout by the second call,
\* which then returns None.
C5_GetIdempotentUnlessExpired ==
    [][ \A u \in Users :
            (last.op = "get" /\ last.user = u /\ Called("get", u))
                => \/ last'.ret = last.ret
                   \/ /\ last.ret # None
                      /\ OlderThanTimeout(last.ret[1])
                      /\ last'.ret = None
      ]_vars

C5_Witness ==
    /\ last.op = "get" /\ last.again
    /\ last.ret # None
    /\ last.ret[1].last_activity < now
    /\ last.ret[1].conversation_history # <<>>

C7_SavedOldActivityExpires ==
    (last.op = "save" /\ last.fresh
        /\ now - last.arg > Config.SESSION_TIMEOUT_MINUTES)
        => get_session(sessions, last.user, now).ret = None

\* C8: add_message for a user without a live session creates the session,
\* and while no more than MAX_CONVERSATION_HISTORY messages were added the
\* history is exactly the added messages, in call order, each with its role
\* and content.
C8_LazyCreateAndOrder ==
    /\ last.op = "add" => last.user \in DOMAIN sessions
    /\ (last.op = "add" /\ last.created) =>
            /\ Len(History(last.user)) = 1
            /\ sessions[last.user].created_at = sessions[last.user].last_activity
    /\ \A u \in DOMAIN sessions :
            Len(appended[u]) <= Config.MAX_CONVERSATION_HISTORY =>
                /\ Len(History(u)) = Len(appended[u])
                /\ \A i \in 1..Len(appended[u]) :
                        /\ History(u)[i].role = appended[u][i].role
                        /\ History(u)[i].content = appended[u][i].content

C8_Witness ==
    \E u \in DOMAIN sessions :
        /\ last.op = "add" /\ last.user = u /\ ~last.created
        /\ Len(appended[u]) = Config.MAX_CONVERSATION_HISTORY
        /\ appended[u][1] # appended[u][2]
        /\ sessions[u].created_at < sessions[u].last_activity

\* ==== properties of the conversation turn (SpecTurn, SpecAgent) ============
AllDone == \A t \in TurnIds : turn[t].phase = "done" /\ turn[t].st.session_updated

SenderHistory ==
    IF Sender \in DOMAIN sessions THEN sessions[Sender].conversation_history ELSE <<>>

\* the positions of the history that hold an entry of turn t with this role
EntriesOf(t, role) ==
    {i \in 1..Len(SenderHistory) :
        SenderHistory[i].role = role /\ SenderHistory[i].content.of = t}

C3_AppendedInReceiptOrder ==
    \A i, j \in 1..Len(SenderHistory) :
        SenderHistory[i].content.of < SenderHistory[j].content.of => i < j

UserFacingResponses ==
    {GreetingResponse \o PersonalizationSuffix, GreetingResponse,
     PricingResponse \o PersonalizationSuffix, PricingResponse,
     EmailUnavailableResponse \o PersonalizationSuffix,
     ErrorHandlingResponse \o PersonalizationSuffix, ErrorHandlingResponse,
     ServiceActionMessage, KnowledgeBaseAnswer, FallbackResponse,
     ValidationApology(EmptyMessageError), ValidationApology(TooLongError)}

\* C9: process_message never propagates an exception, whichever collaborator
\* fails or times out, and the state it returns carries a non-empty fixed
\* response: the timeout apology after a timeout, the error apology after an
\* exception, and otherwise the reply of the turn.
C9_NoFailureIsFatal ==
    \A t \in TurnIds :
        /\ ~turn[t].propagated
        /\ turn[t].exit # "none" =>
            /\ turn[t].returned # None
            /\ turn[t].returned[1] # ""
            /\ turn[t].exit = "timeout" => turn[t].returned[1] = TimeoutApology
            /\ turn[t].exit = "error" => turn[t].returned[1] = ErrorApology
            /\ turn[t].exit = "normal" => turn[t].returned[1] \in UserFacingResponses

RaisedAt(t, site) ==
    \E i \in 1..Len(turn[t].sends) :
        turn[t].sends[i].site = site /\ turn[t].sends[i].outcome = "raise"

C9_Witness ==
    \E t \in TurnIds :
        /\ turn[t].exit = "error"
        /\ "matcher" \in turn[t].calls /\ "kb" \in turn[t].calls
        /\ RaisedAt(t, "process_message")
        /\ RaisedAt(t, "error_response")
        /\ turn[t].returned = Some(ErrorApology)

InvalidInput(m) == m.len = 0 \/ m.len > 2 * max_message_length

\* C10: for a message that is empty after trimming or longer than twice the
\* channel limit, validate_input sets validation_error, the response of the
\* turn is the apology built by handle_error, and neither the Service Action
\* Matcher, nor the intent classification, nor the knowledge base is invoked,
\* and the intent stays unset.
C10_InvalidInputShortCircuits ==
    \A t \in TurnIds :
        (turn[t].phase # "idle" /\ InvalidInput(turn[t].message)) =>
            /\ turn[t].gpc \in {"handle_error", "end"} =>
                    turn[t].st.validation_error \in {EmptyMessageError, TooLongError}
            /\ turn[t].gpc \notin {"process_message", "generate_response", "send_response"}
            /\ turn[t].gpc = "end" =>
                    turn[t].st.response = ValidationApology(turn[t].st.validation_error)
            /\ turn[t].exit = "normal" =>
                    turn[t].returned = Some(ValidationApology(turn[t].st.validation_error))
            /\ turn[t].calls = {}
            /\ turn[t].st.intent = NoneStr

C10_Witness ==
    \E t \in TurnIds :
        /\ attached
        /\ turn[t].message = TooLongMsg
        /\ turn[t].exit = "normal"
        /\ turn[t].st.session_updated
        /\ turn[t].returned = Some(ValidationApology(TooLongError))

\* the process_message node ran for turn t and the classification was reached
\* (the matcher, when consulted, returned without a successful action)
Classified(t) == "classifier" \in turn[t].calls

\* C11: for a message that matches no service pattern, after the
\* process_message node service_action_taken is false and the intent is the
\* classifier's, and the graph's response for a greeting is the canned
\* greeting (with or without the personalization suffix), whether or not the
\* service integration is attached.
C11_NoMatchTakesNoServiceAction ==
    \A t \in TurnIds :
        (turn[t].message.svc = "none" /\ Classified(t) /\ turn[t].exit = "none") =>
            /\ turn[t].st.service_action_taken = FALSE
            /\ turn[t].st.intent = detect_intent(turn[t].message)
            /\ (turn[t].st.intent = "greeting" /\ turn[t].gpc \in {"send_response", "end"})
                    => turn[t].st.response \in
                            {GreetingResponse, GreetingResponse \o PersonalizationSuffix}

\* the lookup of turn t ended without an answer
LookupFailed(t) == turn[t].kb \notin {"none", "answer"}

SessionUpdateFailed(t) ==
    \E i \in 1..Len(turn[t].st.processing_errors) :
        turn[t].st.processing_errors[i] = "Session update error"

\* C12: when the graph ended without a response and the intent is neither
\* greeting nor goodbye, a knowledge-base miss, timeout or exception ends only
\* the lookup: the driver sets the fallback text and sends it once, and unless
\* that send itself raises the turn returns normally with the fallback text
\* as its response, response_sent as the send reported, and the session
\* updated (unless the session store raised).
C12_LookupFailureDegradesToFallback ==
    \A t \in TurnIds :
        LookupFailed(t) =>
            /\ Cardinality({i \in 1..Len(turn[t].sends) :
                    /\ turn[t].sends[i].site = "process_message"
                    /\ turn[t].sends[i].text = FallbackResponse}) = 1
            /\ ~turn[t].propagated
            /\ ~RaisedAt(t, "process_message") =>
                    /\ turn[t].exit = "normal"
                    /\ turn[t].returned = Some(FallbackResponse)
                    /\ turn[t].st.response = FallbackResponse
                    /\ turn[t].st.response_sent =
                            (\E i \in 1..Len(turn[t].sends) :
                                turn[t].sends[i] =
                                    Delivery(FallbackResponse, "process_message", "sent"))
                    /\ turn[t].st.session_updated \/ SessionUpdateFailed(t)

C12_Witness ==
    \E t \in TurnIds :
        /\ turn[t].kb = "timeout"
        /\ turn[t].exit = "normal"
        /\ turn[t].returned = Some(FallbackResponse)
        /\ turn[t].st.response_sent
        /\ turn[t].st.session_updated
        /\ \E i \in 1..Len(SenderHistory) :
                SenderHistory[i].role = "assistant"
                /\ SenderHistory[i].content.text = FallbackResponse

\* the deliveries of turn t made by the graph's own nodes
GraphDeliveries(t, sends) ==
    {i \in 1..Len(sends) : sends[i].site \in {"send_response", "handle_error"}}

\* C13: once a turn breached the whole-turn timeout, no remaining step of its
\* graph runs: no further node, no service action, no delivery by
\* send_response, no mutation of the turn state, and the response stays the
\* timeout apology.
C13_TimeoutCancelsTheGraph ==
    [][ \A t \in TurnIds :
            turn[t].exit = "timeout" =>
                /\ turn'[t].gpc = turn[t].gpc
                /\ turn'[t].calls = turn[t].calls
                /\ GraphDeliveries(t, turn'[t].sends) = GraphDeliveries(t, turn[t].sends)
                /\ turn'[t].st = turn[t].st
                /\ turn'[t].st.response = TimeoutApology
      ]_vars

\* C14: if the whole-turn timeout elapses while the turn is in the graph, in
\* the driver's knowledge-base lookup or in the delivery of its answer, the
\* turn ends with the timeout apology.
C14_TimeoutBoundsLookupAndDelivery ==
    \A t \in TurnIds :
        (turn[t].elapsed /\ turn[t].exit # "none") =>
            /\ turn[t].exit = "timeout"
            /\ turn[t].returned = Some(TimeoutApology)

\* the delivery by send_response of turn t did not succeed
DeliveryFailed(t) ==
    \E i \in 1..Len(turn[t].sends) :
        turn[t].sends[i].site = "send_response" /\ turn[t].sends[i].outcome # "sent"

HasProcessingError(t, errors) ==
    \E i \in 1..Len(turn[t].st.processing_errors) :
        turn[t].st.processing_errors[i] \in errors

\* the deliveries process_message made of the turn's reply
ReplyDeliveries(t) ==
    {i \in 1..Len(turn[t].sends) :
        turn[t].sends[i].site \in {"send_response", "process_message"}}

\* C15: when the delivery fails in send_response (send_message returns False
\* or raises), a processing error is recorded and response_sent is false,
\* process_message makes no second delivery of the reply, and the turn goes
\* on: it returns normally and the session update appends the user's message
\* and the reply (unless the session store itself raises).
C15_DeliveryFailureIsRecordedNotRetried ==
    \A t \in TurnIds :
        (DeliveryFailed(t) /\ turn[t].exit \in {"none", "normal"}) =>
            /\ turn[t].st.response_sent = FALSE
            /\ HasProcessingError(t, {"Failed to send response", "Send error"})
            /\ Cardinality(ReplyDeliveries(t)) = 1
            /\ turn[t].kb = "none"
            /\ turn[t].exit = "normal" =>
                    \/ SessionUpdateFailed(t)
                    \/ /\ turn[t].st.session_updated
                       /\ EntriesOf(t, "user") # {}
                       /\ \E i \in EntriesOf(t, "assistant") :
                                SenderHistory[i].content.text = turn[t].st.response

C15_Witness ==
    \E t \in TurnIds :
        /\ turn[t].sends = <<Delivery(turn[t].st.response, "send_response", "failed")>>
        /\ turn[t].exit = "normal"
        /\ turn[t].st.session_updated
        /\ ~turn[t].st.response_sent
        /\ Len(SenderHistory) = 2

\* the deliveries made inside process_message before the session update
AgentDeliveries(t) ==
    {i \in 1..Len(turn[t].sends) :
        turn[t].sends[i].site \in {"send_response", "handle_error", "process_message"}}

\* C16: when the session store raises during the session update, the
\* exception is absorbed: process_message returns normally the state with the
\* response that was delivered before the update, response_sent as that
\* delivery reported, and session_updated false.
C16_SessionFailureKeepsTheReply ==
    \A t \in TurnIds :
        SessionUpdateFailed(t) =>
            /\ turn[t].exit = "normal"
            /\ ~turn[t].propagated
            /\ turn[t].st.response # ""
            /\ turn[t].returned = Some(turn[t].st.response)
            /\ turn[t].st.session_updated = FALSE
            /\ \E i \in AgentDeliveries(t) :
                    turn[t].sends[i].text = turn[t].st.response
            /\ turn[t].st.response_sent =
                    (\E i \in AgentDeliveries(t) : turn[t].sends[i].outcome = "sent")

C16_Witness ==
    \E t \in TurnIds :
        /\ SessionUpdateFailed(t)
        /\ turn[t].exit = "normal"
        /\ turn[t].st.response_sent
        /\ turn[t].returned = Some(GreetingResponse)
        /\ Len(SenderHistory) = 1

MetadataTags == {"intent", "confidence", "processing_time"}

\* C17: after a turn whose session update succeeded, the history holds the
\* user's message followed by the reply, and every entry of the turn carries
\* the turn's intent and confidence and a processing-time tag in its
\* metadata.
C17_EntriesTaggedWithTurnMetadata ==
    \A t \in TurnIds :
        turn[t].st.session_updated =>
            /\ \E i \in EntriesOf(t, "user"), j \in EntriesOf(t, "assistant") : i < j
            /\ \A i \in EntriesOf(t, "user") \cup EntriesOf(t, "assistant") :
                    /\ MetadataTags \subseteq DOMAIN SenderHistory[i].metadata
                    /\ SenderHistory[i].metadata.intent = turn[t].st.intent
                    /\ SenderHistory[i].metadata.confidence = turn[t].st.confidence

\* ==== properties of the Service Action Matcher (SpecMatcher) ==================
\* the first category, in the order of the checks, that the message matches
FirstMatching(m) ==
    IF m.matches = {} THEN "none"
    ELSE Categories[CHOOSE i \in 1..Len(Categories) :
                        /\ Categories[i] \in m.matches
                        /\ \A j \in 1..(i - 1) : Categories[j] \notin m.matches]

ResultActions(category) ==
    IF category = "email" THEN {"email_sent", "email_error"}
    ELSE IF category = "calendar" THEN {"calendar_event_created", "calendar_error"}
    ELSE IF category = "reminder" THEN {"reminder_created", "reminder_error"}
    ELSE {"data_query_logged", "data_error"}

\* C18: the categories are checked in the order email, calendar, reminder,
\* data, and the first one the message matches ends the call: its result is
\* returned, success or error, only its collaborator calls are made, and no
\* later category is checked.
C18_FirstMatchingCategoryWins ==
    LET first == FirstMatching(matcher.message) IN
    /\ matcher.evaluated = SubSeq(Categories, 1, Len(matcher.evaluated))
    /\ \A i \in 1..Len(matcher.invoked) : matcher.invoked[i].category = first
    /\ matcher.pc = "returned" =>
            IF first = "none"
            THEN /\ matcher.result = Some(NoServiceAction)
                 /\ matcher.evaluated = Categories
            ELSE /\ matcher.result # None
                 /\ matcher.result[1].action \in ResultActions(first)
                 /\ matcher.evaluated[Len(matcher.evaluated)] = first

C18_Witness ==
    /\ matcher.pc = "returned"
    /\ {"email", "calendar", "data"} \subseteq matcher.message.matches
    /\ matcher.result = Some(ServiceResult("email_error", FALSE))
    /\ Len(matcher.invoked) = 1
    /\ matcher.invoked[1].outcome = "raise"

SendEmailCalls == {i \in 1..Len(matcher.invoked) : matcher.invoked[i].op = "send_email"}

\* C19: for a text with an email trigger, when the text contains an address
\* (a part that the address pattern matches) send_email is called exactly
\* once, with the leftmost such part, taken as long as the pattern allows, as
\* recipient; when it contains none the result is email_error and no
\* collaborator is called.
C19_EmailSentOnceToExtractedAddress ==
    ("email" \in matcher.message.matches /\ "email" \in
        {matcher.evaluated[i] : i \in 1..Len(matcher.evaluated)}) =>
        LET text == matcher.message.text
            spans == AddressSpans(text)
        IN  IF spans # {}
            THEN /\ Cardinality(SendEmailCalls) = 1
                 /\ \A i \in SendEmailCalls :
                        \E span \in spans :
                            /\ matcher.invoked[i].target = SubSeq(text, span[1], span[2])
                            /\ \A other \in spans :
                                    /\ span[1] <= other[1]
                                    /\ other[1] = span[1] => other[2] <= span[2]
            ELSE /\ matcher.invoked = <<>>
                 /\ matcher.result = Some(ServiceResult("email_error", FALSE))

C19_Witness ==
    /\ matcher.pc = "returned"
    /\ matcher.message.text = TextPlus
    /\ matcher.result = Some(ServiceResult("email_sent", TRUE))
    /\ matcher.invoked[1].op = "send_email"
    /\ matcher.invoked[1].target = <<"b", "@", "a", ".", "b">>

\* the call of a category's action failed: send_email returned False,
\* create_event returned None, or the call raised (the insert into
\* service_actions is the analytics record written after a success)
ActionFailed(call) ==
    /\ call.target # <<"service_actions">>
    /\ \/ call.outcome = "raise"
       \/ call.op = "send_email" /\ call.outcome = "false"
       \/ call.op = "create_event" /\ call.outcome = "null"

RecordsWritten ==
    {i \in 1..Len(matcher.invoked) :
        matcher.invoked[i].op = "insert" /\ matcher.invoked[i].outcome = "record"}

MatcherSucceeded ==
    /\ matcher.pc = "returned"
    /\ matcher.result # None
    /\ matcher.result[1].success

\* C21: whenever process_service_intent returns success = true (email_sent,
\* calendar_event_created, reminder_created or data_query_logged), a record of
\* the action has been written to the durable store before the return.
C21_SuccessHasWrittenRecord == MatcherSucceeded => RecordsWritten # {}

CreateEventCalls ==
    {i \in 1..Len(matcher.invoked) : matcher.invoked[i].op = "create_event"}

\* the returned call handled a calendar message that says "tomorrow at 3pm"
\* and got as far as creating the event
CalendarTomorrowAt3pm ==
    /\ matcher.pc = "returned"
    /\ matcher.message.when = "tomorrow at 3pm"
    /\ matcher.evaluated = <<"email", "calendar">>
    /\ "calendar" \in matcher.message.matches
    /\ matcher.event # None

\* C22: for a calendar message with both "tomorrow" and "at 3pm" the event's
\* start has hour 15, its end is the start plus one hour, create_event is
\* invoked exactly once, and a null event id gives calendar_error.
C22_TomorrowAtHourIsExtracted ==
    CalendarTomorrowAt3pm =>
        /\ matcher.event[1].start_datetime.hour = 15
        /\ matcher.event[1].end_datetime = PlusHours(matcher.event[1].start_datetime, 1)
        /\ Cardinality(CreateEventCalls) = 1
        /\ (\E i \in CreateEventCalls : matcher.invoked[i].outcome = "null")
                => matcher.result = Some(ServiceResult("calendar_error", FALSE))

\* the parts of C22 other than the start hour
C22_OneEventOfOneHour ==
    CalendarTomorrowAt3pm =>
        /\ matcher.event[1].start_datetime.day = 1
        /\ matcher.event[1].end_datetime = PlusHours(matcher.event[1].start_datetime, 1)
        /\ Cardinality(CreateEventCalls) = 1
        /\ (\E i \in CreateEventCalls : matcher.invoked[i].outcome = "null")
                => matcher.result = Some(ServiceResult("calendar_error", FALSE))

\* C23: for a message that matches no email, calendar or reminder pattern and
\* no data-query keyword, process_service_intent returns action "none" with
\* success false after all four checks and has called no collaborator: no
\* email sent, no event created, no record inserted, with or without a context.
C23_NoMatchTouchesNothing ==
    (matcher.pc = "returned" /\ matcher.message.matches = {}) =>
        /\ matcher.result = Some(NoServiceAction)
        /\ ~matcher.raised
        /\ matcher.evaluated = Categories
        /\ matcher.invoked = <<>>
        /\ matcher.event = None

C23_Witness ==
    /\ matcher.pc = "returned"
    /\ matcher.message.matches = {}
    /\ matcher.context = "conversation_history"
    /\ matcher.result = Some(NoServiceAction)

\* ---- properties of the intent rules ------------------------------------------
\* the rules in the order of the if-chain, and the label left when none matches
IntentRules ==
    << [label |-> "greeting", words |-> GreetingWords],
       [label |-> "goodbye", words |-> GoodbyeWords],
       [label |-> "pricing_inquiry", words |-> PricingWords],
       [label |-> "service_inquiry", words |-> ServiceWords],
       [label |-> "scheduling", words |-> SchedulingWords],
       [label |-> "email_request", words |-> EmailWords],
       [label |-> "calendar_request", words |-> CalendarWords],
       [label |-> "ai_consultation", words |-> AiWords] >>

MatchingRules(m) == {i \in 1..Len(IntentRules) : m.kw \cap IntentRules[i].words # {}}

FirstMatchingLabel(m) ==
    IF MatchingRules(m) = {} THEN "general_inquiry"
    ELSE IntentRules[CHOOSE i \in MatchingRules(m) : \A j \in MatchingRules(m) : i <= j].label

\* C24: the classifier's label is that of the first rule, in the order
\* greeting, goodbye, pricing, service inquiry, scheduling, email, calendar,
\* ai consultation, that has a keyword in the message, and general_inquiry
\* when none has; a message with a greeting keyword is greeting with
\* confidence 0.9 whatever else it contains; the confidence is 0.9 exactly
\* for greeting and goodbye and 0.7 for every other label.
C24_FirstMatchingRuleWins ==
    \A t \in TurnIds :
        Classified(t) =>
            /\ turn[t].st.intent = FirstMatchingLabel(turn[t].message)
            /\ (turn[t].message.kw \cap GreetingWords # {}) =>
                    (turn[t].st.intent = "greeting" /\ turn[t].st.confidence = 90)
            /\ turn[t].st.confidence =
                    IF turn[t].st.intent \in {"greeting", "goodbye"} THEN 90 ELSE 70

\* a greeting keyword together with keywords of the goodbye, email and
\* ai rules
C24_Witness ==
    \E t \in TurnIds :
        /\ Classified(t)
        /\ turn[t].message.kw = {"hi", "bye", "email", "ai", "machine learning"}
        /\ turn[t].st.intent = "greeting"
        /\ turn[t].st.confidence = 90

PartLog(c, p) ==
    LET IsPart(entry) == entry.part = p IN SelectSeq(whatsapp.calls[c].log, IsPart)

\* send_message of call c has returned after getting as far as the posts
Returned(c, ret) ==
    /\ whatsapp.calls[c].pc = "done"
    /\ whatsapp.calls[c].config = "valid"
    /\ whatsapp.calls[c].ret = ret

LastPart(c) == whatsapp.calls[c].log[Len(whatsapp.calls[c].log)].part

\* C26 as stated: no part gets more than max_retries attempts, a part whose
\* later attempt succeeds is sent, and send_message returns False only when
\* every one of the max_retries attempts of a part has failed.
C26_FalseOnlyAfterMaxRetries ==
    \A c \in SendCalls :
        /\ \A p \in 1..2 : Len(PartLog(c, p)) <= max_retries
        /\ Returned(c, "False") =>
                /\ Len(PartLog(c, LastPart(c))) = max_retries
                /\ \A i \in 1..max_retries : PartLog(c, LastPart(c))[i].outcome # "200"

RetriedOutcomes == {"429", "500", "timeout", "error"}

\* C26, amended: a part gets at most max_retries attempts; an attempt is
\* followed by another only if it ended in 429, a 5xx status, a timeout or a
\* network error, and then after a delay; a part is sent by its first attempt
\* answered 200; send_message returns True exactly when every part was sent,
\* and False when a part's attempt got another status (no retry) or when all
\* max_retries attempts of a part ended in a retried failure.
C26_RetriesRetriableFailures ==
    \A c \in SendCalls :
        /\ \A p \in 1..2 :
            LET posts == PartLog(c, p) IN
            /\ Len(posts) <= max_retries
            /\ \A i \in 1..(Len(posts) - 1) :
                    posts[i].outcome \in RetriedOutcomes /\ posts[i].slept
        /\ Returned(c, "True") =>
                \A p \in 1..whatsapp.calls[c].parts :
                    /\ PartLog(c, p) # <<>>
                    /\ PartLog(c, p)[Len(PartLog(c, p))].outcome = "200"
        /\ Returned(c, "False") =>
                LET posts == PartLog(c, LastPart(c)) IN
                /\ \A p \in (LastPart(c) + 1)..2 : PartLog(c, p) = <<>>
                /\ \/ posts[Len(posts)].outcome = "400"
                   \/ /\ Len(posts) = max_retries
                      /\ posts[Len(posts)].outcome \in RetriedOutcomes

\* two failed attempts, each followed by a delay, then the third succeeds
C26_Witness ==
    /\ Returned("s1", "True")
    /\ whatsapp.calls["s1"].parts = 1
    /\ Len(whatsapp.calls["s1"].log) = 3
    /\ whatsapp.calls["s1"].log[1].outcome = "500"
    /\ whatsapp.calls["s1"].log[2].outcome = "timeout"
    /\ whatsapp.calls["s1"].log[2].slept

\* the calls that hold a permit: past acquire() and not yet out of the try
PastSemaphore == {c \in SendCalls : whatsapp.calls[c].pc \in {"acquired", "sending"}}

\* C27: in every interleaving of concurrent send_message calls the calls past
\* the semaphore never exceed its capacity, every permit taken is held by a
\* call still inside or has been given back (a call that has ended by
\* success, invalid configuration, send failure or exception holds none),
\* and every waiting call eventually proceeds and ends.
C27_SemaphoreLimitsAndReleases ==
    /\ [](Cardinality(PastSemaphore) <= SemaphoreCapacity)
    /\ [](whatsapp.value + Cardinality(PastSemaphore) = SemaphoreCapacity)
    /\ \A c \in SendCalls :
            (whatsapp.calls[c].pc = "waiting") ~> (whatsapp.calls[c].pc = "done")

\* one call has ended by an exception and given its permit back, which the
\* first waiter has taken while another call still waits
C27_Witness ==
    /\ whatsapp.calls["s1"].pc = "done"
    /\ whatsapp.calls["s1"].ret = "raise"
    /\ whatsapp.calls["s2"].pc = "sending"
    /\ whatsapp.calls["s3"].pc = "waiting"
    /\ whatsapp.value = 0

\* ==== properties of the graph (SpecGraph) =======================================
\* a step of the graph of turn t from one position to the next
GraphStep(t, from, to) == turn[t].gpc = from /\ turn'[t].gpc = to

\* C28: a run of the graph starts at validate_input, goes on to handle_error
\* alone when validation_error is set and otherwise to process_message,
\* generate_response and send_response in that order, ends after
\* send_response or handle_error only, runs no node twice, and reaches the
\* end.
C28_GraphFollowsOneOfTwoPaths ==
    /\ [][\A t \in TurnIds :
            turn'[t].gpc # turn[t].gpc =>
                \/ GraphStep(t, "none", "validate_input")
                \/ /\ GraphStep(t, "validate_input", "handle_error")
                   /\ turn'[t].st.validation_error # NoneStr
                \/ /\ GraphStep(t, "validate_input", "process_message")
                   /\ turn'[t].st.validation_error = NoneStr
                \/ GraphStep(t, "process_message", "generate_response")
                \/ GraphStep(t, "generate_response", "send_response")
                \/ GraphStep(t, "send_response", "end")
                \/ GraphStep(t, "handle_error", "end")]_vars
    /\ \A t \in TurnIds : (turn[t].gpc = "validate_input") ~> (turn[t].gpc = "end")

\* a run that took the error path to the end, and one that took the other
C28_Witness ==
    /\ turn[1].gpc = "end"
    /\ turn[1].st.validation_error = TooLongError
    /\ Len(turn[1].sends) = 1
    /\ turn[1].sends[1].site = "handle_error"

C28_WitnessContinue ==
    /\ turn[1].gpc = "end"
    /\ turn[1].st.validation_error = NoneStr
    /\ "classifier" \in turn[1].calls

\* ==== properties of a turn with a service action (SpecAgent) ====================
\* the matcher was asked and reported success: the node ended without the
\* intent rules and without an error
ServiceActionSucceeded(t) ==
    /\ "matcher" \in turn[t].calls
    /\ ~Classified(t)
    /\ ~HasProcessingError(t, {"Processing error"})

\* the turn has not left process_message by the timeout or the error branch
Undisturbed(t) == turn[t].exit \in {"none", "normal"}

\* C29: when the matcher reports success the response is the matcher's
\* message from the process_message node to the end of the turn, the intent
\* is service_<action>, the confidence 0.95, the greeting and goodbye
\* analysis is not made, the graph goes on to send_response, which sends that
\* message, and the knowledge base is not queried.
C29_SuccessShortCircuits ==
    \A t \in TurnIds :
        (ServiceActionSucceeded(t) /\ Undisturbed(t)) =>
            /\ turn[t].st.response = ServiceActionMessage
            /\ turn[t].st.intent = "service_email_sent"
            /\ turn[t].st.confidence = 95
            /\ turn[t].st.service_action_taken
            /\ ~turn[t].st.is_greeting /\ ~turn[t].st.is_goodbye
            /\ "kb" \notin turn[t].calls /\ turn[t].kb = "none"
            /\ turn[t].gpc \in {"generate_response", "send_response", "end"}
            /\ turn[t].gpc = "end" =>
                    /\ Cardinality(AgentDeliveries(t)) = 1
                    /\ \A i \in AgentDeliveries(t) :
                            /\ turn[t].sends[i].site = "send_response"
                            /\ turn[t].sends[i].text = ServiceActionMessage
            /\ turn[t].exit = "normal" => turn[t].returned = Some(ServiceActionMessage)

C29_Witness ==
    \E t \in TurnIds :
        /\ ServiceActionSucceeded(t)
        /\ turn[t].exit = "normal"
        /\ turn[t].message = EmailMsg
        /\ turn[t].via = "direct"
        /\ turn[t].sends = <<Delivery(ServiceActionMessage, "send_response", "sent")>>

\* the matcher was asked and reported an action attempted without success
ServiceActionFailed(t) ==
    /\ "matcher" \in turn[t].calls
    /\ Classified(t)
    /\ turn[t].message.svc # "none"

CannedResponses ==
    {GreetingResponse, GoodbyeResponse, ErrorHandlingResponse, PricingResponse,
     ServiceResponse, SchedulingResponse, EmailUnavailableResponse,
     CalendarUnavailableResponse}

\* C30: when the matcher reports an attempted action that failed, the error
\* is recorded in the state and the intent rules run: the intent is the
\* classifier's label, never service_*, the confidence is 0.9 or 0.7, and
\* the reply sent and returned is a canned response or the knowledge base's
\* answer (or the fallback text when the lookup gives none), never the
\* error message of the service.
C30_FailedActionFallsThrough ==
    \A t \in TurnIds :
        (ServiceActionFailed(t) /\ Undisturbed(t)) =>
            /\ turn[t].st.service_action_taken
            /\ turn[t].st.service_error \notin {NoneStr, ""}
            /\ turn[t].st.intent = FirstMatchingLabel(turn[t].message)
            /\ turn[t].st.confidence \in {90, 70}
            /\ turn[t].st.response # turn[t].st.service_error
            /\ \A i \in AgentDeliveries(t) :
                    turn[t].sends[i].text \in
                        CannedResponses \cup {KnowledgeBaseAnswer, FallbackResponse}
            /\ turn[t].exit = "normal" =>
                    turn[t].returned \in
                        {Some(r) : r \in CannedResponses \cup
                                        {KnowledgeBaseAnswer, FallbackResponse}}

C30_Witness ==
    \E t \in TurnIds :
        /\ ServiceActionFailed(t)
        /\ turn[t].exit = "normal"
        /\ turn[t].st.intent = "email_request"
        /\ turn[t].st.confidence = 70
        /\ turn[t].returned = Some(KnowledgeBaseAnswer)

\* ---------------------------------------------------------------------------
\* C31: the knowledge base is queried at most once per turn, only by the
\* driver after the graph has ended, never in a turn whose intent is greeting
\* or goodbye or whose response was already produced, and the context passed
\* is built from at most the last 3 turns of the history.
QueriesKnowledgeBase(t) == "kb" \notin turn[t].calls /\ "kb" \in turn'[t].calls

C31_ContextOfLastThree(t) ==
    LET history == turn[t].st.conversation_history
        context == turn[t].context
        skipped == Len(history) - Len(context) IN
    /\ Len(context) = IF Len(history) < 3 THEN Len(history) ELSE 3
    /\ \A i \in 1..Len(context) : context[i] = history[skipped + i]

C31_KnowledgeBaseQueriedOnceByDriver ==
    /\ [][\A t \in TurnIds :
            /\ QueriesKnowledgeBase(t) =>
                /\ turn[t].phase = "graph" /\ turn[t].gpc = "end"
                /\ turn'[t].phase = "kb"
                /\ turn[t].st.response = ""
                /\ turn[t].st.intent \notin {"greeting", "goodbye"}
            /\ turn'[t].phase = "kb" /\ turn[t].phase # "kb" => QueriesKnowledgeBase(t)]_vars
    /\ [](\A t \in TurnIds : "kb" \in turn[t].calls => C31_ContextOfLastThree(t))

\* a turn with a history of four entries asked the knowledge base with the
\* last three of them and returned its answer
C31_Witness ==
    \E t \in TurnIds :
        /\ turn[t].phase = "done" /\ "kb" \in turn[t].calls
        /\ Len(turn[t].st.conversation_history) = 4
        /\ Len(turn[t].context) = 3
        /\ turn[t].returned = Some(KnowledgeBaseAnswer)

\* ---------------------------------------------------------------------------
\* C32: in the reminder path the reminder record is inserted only after the
\* calendar event was created and returned an id; reminder_created implies
\* exactly one event creation followed by exactly one record insert; with no
\* id no record is inserted and the result is reminder_error; when the insert
\* throws, nothing further is called, the result is reminder_error and the
\* created event is left in place.
ReminderCalls == SelectSeq(matcher.invoked, LAMBDA call : call.category = "reminder")

ReminderInserts ==
    {i \in 1..Len(ReminderCalls) :
        ReminderCalls[i].op = "insert" /\ ReminderCalls[i].target = <<"reminders">>}

ReminderResult(action) ==
    /\ matcher.result # None
    /\ matcher.result[1].action = action

C32_ReminderWritesAreOrdered ==
    LET calls == ReminderCalls IN
    /\ \A i \in ReminderInserts :
            /\ i = 2
            /\ calls[1].op = "create_event" /\ calls[1].outcome = "id"
    /\ matcher.pc = "returned" =>
        /\ ReminderResult("reminder_created") =>
                /\ Len(calls) = 2
                /\ calls[1].op = "create_event" /\ calls[2].op = "insert"
                /\ calls[2].outcome # "raise"
        /\ calls # <<>> /\ calls[1].outcome # "id" =>
                /\ Len(calls) = 1
                /\ matcher.result = Some(ServiceResult("reminder_error", FALSE))
        /\ \A i \in ReminderInserts : calls[i].outcome = "raise" =>
                /\ matcher.invoked[Len(matcher.invoked)] = calls[i]
                /\ matcher.evaluated[Len(matcher.evaluated)] = "reminder"
                /\ matcher.result = Some(ServiceResult("reminder_error", FALSE))

\* a reminder was created: the event first, the record after it
C32_Witness ==
    /\ matcher.pc = "returned"
    /\ ReminderResult("reminder_created")
    /\ Len(matcher.invoked) = 2
    /\ matcher.invoked[1].op = "create_event" /\ matcher.invoked[1].outcome = "id"
    /\ matcher.invoked[2].op = "insert" /\ matcher.invoked[2].outcome = "record"

\* ---------------------------------------------------------------------------
\* C33: post-processing appends the invitation-to-continue suffix to a
\* generated response exactly when the turn is not a goodbye and no service
\* action ran in the turn (the suffix always fits after the canned texts); a
\* non-goodbye turn in which no service pattern matched gets the suffix on
\* its canned response.
\* the generate_response node has just produced a response for turn t
Generated(t) ==
    /\ turn[t].gpc = "send_response"
    /\ turn[t].exit = "none"
    /\ Classified(t)
    /\ turn[t].st.response # ""

\* the matcher made a collaborator call for the turn's message
ServiceActionRan(t) == attached /\ turn[t].message.svc # "none"

C33_SuffixExactlyWithoutServiceAction ==
    \A t \in TurnIds :
        Generated(t) =>
            \E canned \in CannedResponses :
                turn[t].st.response =
                    IF ~turn[t].st.is_goodbye /\ ~ServiceActionRan(t)
                    THEN canned \o PersonalizationSuffix
                    ELSE canned

\* ---------------------------------------------------------------------------
\* C34: for every "processing failed" sentinel string given verbatim as the
\* input message, the generated response is the audio-apology template (not
\* a greeting, another canned reply or a knowledge-base answer).
SentinelTexts == {m.text : m \in SentinelMessages}

C34_SentinelGetsAudioApology ==
    \A t \in TurnIds :
        (/\ turn[t].message.text \in SentinelTexts
         /\ turn[t].gpc = "send_response"
         /\ turn[t].exit = "none") =>
            turn[t].st.response \in
                {ErrorHandlingResponse, ErrorHandlingResponse \o PersonalizationSuffix}

\* ---------------------------------------------------------------------------
\* C35: after any sequence and interleaving of queries the cache never holds
\* more than its maximum number of entries; inserting a new key into a full
\* cache evicts the oldest-inserted entry; concurrent misses on the same key
\* are both executed and both written, the last write wins, and the key
\* ends up with a single entry.
CacheKeys(cache) == {cache[i].key : i \in 1..Len(cache)}

CacheEntries(cache, key) == {i \in 1..Len(cache) : cache[i].key = key}

\* call c returns an answer of the query engine in this step
WritesCache(c) ==
    /\ kbase.calls[c].pc = "executing"
    /\ kbase'.calls[c].pc = "done"
    /\ kbase'.calls[c].ret # NoneStr

C35_CacheBoundedLastWriteWins ==
    /\ [](/\ Len(kbase.cache) <= cache_max_size
          /\ \A key \in CacheKeys(kbase.cache) :
                Cardinality(CacheEntries(kbase.cache, key)) = 1)
    /\ [][/\ \A c \in KbCalls :
                WritesCache(c) =>
                    LET key == kbase.calls[c].key
                        entry == [key |-> key, answer |-> kbase'.calls[c].ret] IN
                    /\ \A i \in CacheEntries(kbase'.cache, key) : kbase'.cache[i] = entry
                    /\ CacheEntries(kbase'.cache, key) # {}
                    /\ key \notin CacheKeys(kbase.cache) =>
                            kbase'.cache =
                                IF Len(kbase.cache) = cache_max_size
                                THEN Append(Tail(kbase.cache), entry)
                                ELSE Append(kbase.cache, entry)
          /\ kbase'.cache # kbase.cache => \E c \in KbCalls : WritesCache(c)]_vars

\* two queries with the same key both missed, were both executed and got
\* different answers; the cache holds one entry for the key; an entry has
\* been evicted before
C35_Witness ==
    /\ kbase.calls["k1"].pc = "done" /\ kbase.calls["k2"].pc = "done"
    /\ kbase.calls["k1"].executed /\ kbase.calls["k2"].executed
    /\ kbase.calls["k1"].key = kbase.calls["k2"].key
    /\ kbase.calls["k1"].ret = "answer A" /\ kbase.calls["k2"].ret = "answer B"
    /\ Cardinality(CacheEntries(kbase.cache, kbase.calls["k1"].key)) = 1
    /\ Len(kbase.cache) = cache_max_size
    /\ kbase.evicted # NoKey

\* ---------------------------------------------------------------------------
\* C36: each inbound message's response is delivered at most once: across
\* the send_response node, the driver's send after the knowledge-base lookup
\* and the webhook's background handler, send_message is not called twice
\* with the turn's response for the same inbound message.
ResponseSends(t) ==
    {i \in 1..Len(turn[t].sends) :
        /\ turn[t].sends[i].site \in {"send_response", "process_message", "background"}
        /\ turn[t].sends[i].text = turn[t].st.response}

AgentEntries(t) ==
    {i \in 1..Len(SenderHistory) :
        SenderHistory[i].content.of = t /\ SenderHistory[i].metadata = NoMetadata}

C37_ErrorPathsSkipSessionUpdate ==
    /\ [](\A t \in TurnIds :
            /\ turn[t].exit \in {"timeout", "error"} =>
                    AgentEntries(t) = {} /\ ~turn[t].st.session_updated
            /\ turn[t].exit = "normal" =>
                    /\ turn[t].st.session_updated \/ SessionUpdateFailed(t)
                    /\ turn[t].st.session_updated =>
                            \E i \in AgentEntries(t) :
                                /\ SenderHistory[i].role = "user"
                                /\ SenderHistory[i].content.text = turn[t].message.text)
    /\ [][\A t \in TurnIds :
            (turn[t].exit = "none" /\ turn'[t].exit \in {"timeout", "error"}) =>
                sessions' = sessions]_vars

\* a turn ended by the timeout returned the apology and the store holds no
\* session
C37_Witness ==
    \E t \in TurnIds :
        /\ turn[t].exit = "timeout"
        /\ turn[t].via = "direct" /\ turn[t].phase = "done"
        /\ turn[t].returned = Some(TimeoutApology)
        /\ Sender \notin DOMAIN sessions

\* a turn that failed validation returned normally and its message and the
\* apology are in the session
C37_WitnessValidation ==
    \E t \in TurnIds :
        /\ turn[t].exit = "normal"
        /\ turn[t].st.validation_error # NoneStr
        /\ turn[t].st.session_updated
        /\ Cardinality(AgentEntries(t)) = 2

\* ---------------------------------------------------------------------------
\* C38: add_message for a user whose session has expired starts a fresh
\* session: the expired session is deleted, and the new session's history
\* holds only the newly added message and none of the expired session's
\* entries.
StoredAndExpired(u) ==
    /\ u \in DOMAIN sessions
    /\ now - sessions[u].last_activity > Config.SESSION_TIMEOUT_MINUTES

C38_ExpiredSessionStartsFresh ==
    [][\A u \in Users :
            (Called("add", u) /\ StoredAndExpired(u)) =>
                /\ u \in DOMAIN sessions'
                /\ sessions'[u].created_at = now
                /\ sessions'[u].last_activity = now
                /\ Len(sessions'[u].conversation_history) = 1
                /\ sessions'[u].conversation_history = appended'[u]
                /\ \A v \in Users \ {u} :
                        v \in DOMAIN sessions =>
                            v \in DOMAIN sessions' /\ sessions'[v] = sessions[v]]_vars

\* a message was added for a user whose stored session had expired: the call
\* removed that session and the new one holds the one message
C38_Witness ==
    \E u \in DOMAIN sessions :
        /\ last.op = "add" /\ last.user = u /\ last.removed = {u}
        /\ sessions[u].created_at = now /\ now = MaxTime
        /\ Len(History(u)) = 1

\* ---------------------------------------------------------------------------
\* C39: under any interleaving of initialize calls the initialization routine
\* never runs in two calls at once; once one call has succeeded every later
\* or waiting call returns True without running the routine again; a failed
\* initialization makes at most max_retries attempts and then returns False,
\* leaving the service uninitialized (and the lock free) so that a later
\* call can retry.
Running == {c \in KbCalls : kbase.calls[c].pc = "running"}

\* call c returns from initialize in this step (a query goes on or returns)
InitializeEnds(c) ==
    /\ kbase.calls[c].pc \in {"idle", "waiting", "running"}
    /\ kbase'.calls[c].pc \in {"done", "executing"}
    /\ kbase.calls[c].pc = "idle" =>
            kbase'.calls[c].op = "initialize" \/ kbase'.calls[c].pc = "executing"

C39_InitializeRunsOnceAtATime ==
    /\ [](/\ Cardinality(Running) <= 1
          /\ Running # {} => kbase.locked /\ ~kbase.initialized
          /\ \A c \in KbCalls : kbase.calls[c].attempt <= kb_max_retries)
    /\ [][/\ \A c \in KbCalls :
                /\ (c \notin Running /\ kbase'.calls[c].pc = "running") => ~kbase.initialized
                /\ (InitializeEnds(c) /\ kbase.initialized) =>
                        /\ c \notin Running
                        /\ kbase'.calls[c].op = "initialize" => kbase'.calls[c].ret = "True"
                        /\ kbase'.calls[c].op = "query" => kbase'.calls[c].pc = "executing"
                /\ (c \in Running /\ kbase'.calls[c].pc # "running") =>
                        /\ ~kbase'.locked
                        /\ IF kbase'.initialized
                           THEN kbase'.calls[c].ret = "True" \/ kbase'.calls[c].pc = "executing"
                           ELSE /\ kbase'.calls[c].pc = "done"
                                /\ kbase'.calls[c].ret \in {"False", NoneStr}
                                /\ kbase'.calls[c].attempt = kb_max_retries
                /\ (InitializeEnds(c) /\ ~kbase'.initialized) =>
                        /\ kbase'.calls[c].pc = "done"
                        /\ kbase'.calls[c].ret =
                                IF kbase'.calls[c].op = "initialize" THEN "False" ELSE NoneStr
          /\ kbase.initialized => kbase'.initialized]_vars

\* a first call gave up after max_retries attempts and returned False, a
\* later call initialized the service, and a call that had waited for the
\* lock returned True
C39_Witness ==
    /\ kbase.calls["k1"].pc = "done" /\ kbase.calls["k1"].ret = "False"
    /\ kbase.calls["k1"].attempt = kb_max_retries
    /\ kbase.calls["k2"].pc = "done" /\ kbase.calls["k2"].ret = "True"
    /\ kbase.calls["k2"].attempt = 1
    /\ kbase.calls["k3"].pc = "done" /\ kbase.calls["k3"].ret = "True"
    /\ kbase.calls["k3"].attempt = 0
    /\ kbase.initialized

\* ---------------------------------------------------------------------------
\* C40: for the CircuitBreaker, overlapping calls included: the wrapped
\* function is never invoked while the breaker is OPEN and the recovery
\* timeout has not elapsed; the breaker becomes OPEN once failure_threshold
\* failures have been counted without an intervening success; it is CLOSED
\* only when fewer than failure_threshold failures have been counted since
\* the last success, and a success resets the count to zero.
Invokes(c) == breaker.calls[c].pc = "idle" /\ breaker'.calls[c].pc = "invoked"

Returns(c, outcomes) ==
    /\ breaker.calls[c].pc = "invoked"
    /\ breaker'.calls[c].pc = "done"
    /\ breaker'.calls[c].ret \in outcomes

C40_BreakerOpensAndCloses ==
    /\ [](/\ breaker.state = "CLOSED" => breaker.failure_count < failure_threshold
          /\ breaker.failure_count >= failure_threshold =>
                breaker.state \in {"OPEN", "HALF_OPEN"}
          /\ breaker.state \in {"OPEN", "HALF_OPEN"} => breaker.last_failure_time # NoTime)
    /\ [][\A c \in BreakerCalls :
            /\ Invokes(c) =>
                    \/ breaker.state # "OPEN"
                    \/ now - breaker.last_failure_time >= recovery_timeout
            /\ Returns(c, {"raise"}) =>
                    /\ breaker'.failure_count = breaker.failure_count + 1
                    /\ breaker'.failure_count >= failure_threshold => breaker'.state = "OPEN"
            /\ Returns(c, {"ok"}) =>
                    breaker'.failure_count = 0 /\ breaker'.state = "CLOSED"]_vars

\* the breaker opened, let a call through after the recovery timeout and was
\* closed by its success while another call was refused
C40_Witness ==
    /\ breaker.state = "CLOSED" /\ breaker.failure_count = 0
    /\ breaker.last_failure_time # NoTime
    /\ now - breaker.last_failure_time >= recovery_timeout
    /\ breaker.calls["b1"] = [pc |-> "done", ret |-> "ok"]
    /\ breaker.calls["b2"] = [pc |-> "done", ret |-> "Circuit breaker is OPEN"]
    /\ breaker.calls["b3"] = [pc |-> "done", ret |-> "raise"]

TypeOK ==
    /\ now \in Times
    /\ DOMAIN sessions \subseteq Users
====
